---------------------------- MODULE Spec2Model ----------------------------
(***************************************************************************)
(* A model of the generation-invocation engine of vertex-ai-mcp-server     *)
(* (src/src/vertex_ai_client.ts): the client handle, the error classifier, *)
(* the error formatter, the response processing of the streaming and the   *)
(* non-streaming call shape, and the retry loop of callGenerativeAI.       *)
(*                                                                         *)
(* JavaScript strings are TLA+ strings.  TLC evaluates Len, \o, SubSeq and *)
(* Tail on them, so substring search, lower-casing and the two regular     *)
(* expressions of the source are computed character by character.          *)
(***************************************************************************)
EXTENDS Integers, Sequences, FiniteSets, TLC

(***************************************************************************)
(* Strings                                                                 *)
(***************************************************************************)

\* The i-th character of s, as a one-character string ("" outside s).
CharAt(s, i) == IF 1 <= i /\ i <= Len(s) THEN SubSeq(s, i, i) ELSE ""

UpperToLower ==
  [c \in {"A","B","C","D","E","F","G","H","I","J","K","L","M",
          "N","O","P","Q","R","S","T","U","V","W","X","Y","Z"} |->
     CASE c = "A" -> "a" [] c = "B" -> "b" [] c = "C" -> "c" [] c = "D" -> "d"
       [] c = "E" -> "e" [] c = "F" -> "f" [] c = "G" -> "g" [] c = "H" -> "h"
       [] c = "I" -> "i" [] c = "J" -> "j" [] c = "K" -> "k" [] c = "L" -> "l"
       [] c = "M" -> "m" [] c = "N" -> "n" [] c = "O" -> "o" [] c = "P" -> "p"
       [] c = "Q" -> "q" [] c = "R" -> "r" [] c = "S" -> "s" [] c = "T" -> "t"
       [] c = "U" -> "u" [] c = "V" -> "v" [] c = "W" -> "w" [] c = "X" -> "x"
       [] c = "Y" -> "y" [] c = "Z" -> "z"]

LowerChar(c) == IF c \in DOMAIN UpperToLower THEN UpperToLower[c] ELSE c

\* String.prototype.toLowerCase
RECURSIVE ToLowerCase(_)
ToLowerCase(s) ==
  IF Len(s) = 0 THEN ""
  ELSE IF Len(s) = 1 THEN LowerChar(s)
  ELSE LET h == Len(s) \div 2
       IN  ToLowerCase(SubSeq(s, 1, h)) \o ToLowerCase(SubSeq(s, h + 1, Len(s)))

\* Whether pat occurs in s at position i.
MatchAt(s, pat, i) ==
  /\ i >= 1
  /\ i + Len(pat) - 1 <= Len(s)
  /\ SubSeq(s, i, i + Len(pat) - 1) = pat

\* String.prototype.includes
Includes(s, pat) == \E i \in 1..(Len(s) + 1) : MatchAt(s, pat, i)

\* The regular expression class \w: [A-Za-z0-9_].
IsWordChar(c) ==
  \/ c \in DOMAIN UpperToLower
  \/ c \in {"a","b","c","d","e","f","g","h","i","j","k","l","m",
            "n","o","p","q","r","s","t","u","v","w","x","y","z"}
  \/ c \in {"0","1","2","3","4","5","6","7","8","9","_"}

\* The regular expression class \s, for the white space the messages use.
IsSpaceChar(c) == c \in {" ", "\t", "\n"}

\* The assertion \b at the gap before position i (1..Len(s)+1).
WordBoundary(s, i) ==
  LET before == i > 1 /\ IsWordChar(CharAt(s, i - 1))
      after  == i <= Len(s) /\ IsWordChar(CharAt(s, i))
  IN  before # after

ServerCodeWords == {"500", "503", "internal", "unavailable"}

\* /\b(500|503|internal|unavailable)\b/ matched at position i of s with word w.
ServerCodeAt(s, w, i) ==
  /\ MatchAt(s, w, i)
  /\ WordBoundary(s, i)
  /\ WordBoundary(s, i + Len(w))

\* The positions at which /\b(500|503|internal|unavailable)\b/ matches.
ServerCodePositions(s) ==
  {i \in 1..Len(s) : \E w \in ServerCodeWords : ServerCodeAt(s, w, i)}

Min(S) == CHOOSE x \in S : \A y \in S : x <= y

\* s.match(/\b(500|503|internal|unavailable)\b/)?.[0]: the leftmost match, or
\* "undefined" when there is none.
ServerCodeMatch(s) ==
  IF ServerCodePositions(s) = {} THEN "undefined"
  ELSE LET i == Min(ServerCodePositions(s))
       IN  CHOOSE w \in ServerCodeWords : ServerCodeAt(s, w, i)


(***************************************************************************)
(* Errors: the classifier and the formatter                                *)
(***************************************************************************)

\* A thrown value: its message and status properties (absent: ""), and what
\* String(value) gives.  Err(m) is an Error with message m, which stringifies
\* to its name when m is empty; ThrownString(t) is a string thrown as it is.
Err(m) == [message |-> m, status |-> "", string |-> "Error"]
ThrownString(t) == [message |-> "", status |-> "", string |-> t]

\* AIErrorType
Safety      == "safety"
RateLimit   == "rate_limit"
ServerError == "server_error"
Timeout     == "timeout"
Network     == "network"
Unknown     == "unknown"

\* String(error.message || error || "")
ErrorString(error) == IF error.message # "" THEN error.message ELSE error.string

\* ClassifyMessage with the rate-limit test moved before the safety test.
ClassifyMessageRateFirst(errorMessage) ==
  IF Includes(errorMessage, "429")
    THEN RateLimit
  ELSE IF Includes(errorMessage, "blocked") \/ Includes(errorMessage, "safety")
    THEN Safety
  ELSE IF \/ ServerCodePositions(errorMessage) # {}
          \/ Includes(errorMessage, "server error")
    THEN ServerError
  ELSE IF \/ Includes(errorMessage, "deadline_exceeded")
          \/ Includes(errorMessage, "timeout")
    THEN Timeout
  ELSE IF \/ Includes(errorMessage, "network error")
          \/ Includes(errorMessage, "socket hang up")
          \/ Includes(errorMessage, "could not connect")
          \/ Includes(errorMessage, "connection refused")
    THEN Network
  ELSE Unknown

\* ClassifyMessage with the timeout test moved before the server-error test.
ClassifyMessageTimeoutFirst(errorMessage) ==
  IF Includes(errorMessage, "blocked") \/ Includes(errorMessage, "safety")
    THEN Safety
  ELSE IF Includes(errorMessage, "429")
    THEN RateLimit
  ELSE IF \/ Includes(errorMessage, "deadline_exceeded")
          \/ Includes(errorMessage, "timeout")
    THEN Timeout
  ELSE IF \/ ServerCodePositions(errorMessage) # {}
          \/ Includes(errorMessage, "server error")
    THEN ServerError
  ELSE IF \/ Includes(errorMessage, "network error")
          \/ Includes(errorMessage, "socket hang up")
          \/ Includes(errorMessage, "could not connect")
          \/ Includes(errorMessage, "connection refused")
    THEN Network
  ELSE Unknown

\* The if-chain of processResponseError over the lower-cased message.
ClassifyMessage(errorMessage) ==
  IF Includes(errorMessage, "blocked") \/ Includes(errorMessage, "safety")
    THEN Safety
  ELSE IF Includes(errorMessage, "429")
    THEN RateLimit
  ELSE IF \/ ServerCodePositions(errorMessage) # {}
          \/ Includes(errorMessage, "server error")
    THEN ServerError
  ELSE IF \/ Includes(errorMessage, "deadline_exceeded")
          \/ Includes(errorMessage, "timeout")
    THEN Timeout
  ELSE IF \/ Includes(errorMessage, "network error")
          \/ Includes(errorMessage, "socket hang up")
          \/ Includes(errorMessage, "could not connect")
          \/ Includes(errorMessage, "connection refused")
    THEN Network
  ELSE Unknown

\* retryable with the initial value true: an unclassified error is retried.
RetryableTypeDefaultTrue(type) == type # Safety

\* retryable, as the if-chain sets it beside the type.
RetryableType(type) == type \in {RateLimit, ServerError, Timeout, Network}

\* The AIServiceError built from a type.
ServiceError(error, type) ==
  [type      |-> type,
   message   |-> IF error.message # "" THEN error.message ELSE "Unknown error",
   retryable |-> RetryableType(type)]

ProcessResponseError(error) ==
  ServiceError(error, ClassifyMessage(ToLowerCase(ErrorString(error))))

\* The first position >= k of s that holds no white space (Len(s)+1 at the end).
RECURSIVE SkipSpaces(_, _)
SkipSpaces(s, k) ==
  IF k <= Len(s) /\ IsSpaceChar(CharAt(s, k)) THEN SkipSpaces(s, k + 1) ELSE k

\* The end of the run of word characters that starts at k (k - 1: no run).
RECURSIVE WordRunEnd(_, _)
WordRunEnd(s, k) ==
  IF k <= Len(s) /\ IsWordChar(CharAt(s, k)) THEN WordRunEnd(s, k + 1) ELSE k - 1

\* /(Reason|Finish Reason):\s*(\w+)/i matched at position i of s, whose
\* lower-cased form is low, with alternative alt.
ReasonAltAt(s, low, alt, i) ==
  /\ MatchAt(low, alt, i)
  /\ MatchAt(s, ":", i + Len(alt))
  /\ IsWordChar(CharAt(s, SkipSpaces(s, i + Len(alt) + 1)))

ReasonAlternatives == {"reason", "finish reason"}

\* The positions at which the reason expression matches.
ReasonPositions(s, low) ==
  {i \in 1..Len(s) : \E alt \in ReasonAlternatives : ReasonAltAt(s, low, alt, i)}

\* Group 2 of the match at position i: the run of word characters.
ReasonToken(s, low, i) ==
  LET alt == CHOOSE a \in ReasonAlternatives : ReasonAltAt(s, low, a, i)
      k   == SkipSpaces(s, i + Len(alt) + 1)
  IN  SubSeq(s, k, WordRunEnd(s, k))

ReasonTokenOf(s, positions, low) ==
  IF positions = {} THEN "Safety Filter" ELSE ReasonToken(s, low, Min(positions))

\* reasonMatch?.[2] || "Safety Filter"
SpecificReason(s) ==
  ReasonTokenOf(s, ReasonPositions(s, ToLowerCase(s)), ToLowerCase(s))

\* FormatErrorMessage naming only the reason token of a Safety error.
FormatErrorMessageReasonOnly(error) ==
  IF error.type = Safety
    THEN "Content generation blocked by " \o SpecificReason(error.message) \o "."
  ELSE "GenAI API error: " \o error.message

FormatErrorMessage(error) ==
  CASE error.type = Safety ->
         "Content generation blocked by " \o SpecificReason(error.message)
           \o ". (" \o error.message \o ")"
    [] error.type = RateLimit ->
         "GenAI API error: Rate limit exceeded (429). Please try again later."
    [] error.type = ServerError ->
         "GenAI API error: Server error (" \o ServerCodeMatch(error.message)
           \o "). Please try again later. (" \o error.message \o ")"
    [] error.type = Timeout ->
         "GenAI API error: Operation timed out (deadline_exceeded)."
    [] OTHER ->
         "GenAI API error: "
           \o (IF error.message # "" THEN error.message ELSE "Unknown error")

\* new McpError(ErrorCode.InternalError, message)
McpError(m) == [type |-> "McpError", code |-> "InternalError", message |-> m]

(***************************************************************************)
(* Responses                                                               *)
(*                                                                         *)
(* A GenerateContentResponse is                                            *)
(*   [blockReason |-> string, candidates |-> sequence of candidates],      *)
(* a candidate [finishReason |-> string, parts |-> sequence of parts],     *)
(* a part [hasText |-> BOOLEAN, text |-> string, functionCall |-> BOOLEAN].*)
(* An absent blockReason or finishReason is the empty string, which the    *)
(* source's truthiness tests treat like undefined.                         *)
(***************************************************************************)

TextPart(t)  == [hasText |-> TRUE,  text |-> t,  functionCall |-> FALSE]
CallPart     == [hasText |-> FALSE, text |-> "", functionCall |-> TRUE]
OtherPart    == [hasText |-> FALSE, text |-> "", functionCall |-> FALSE]

Candidate(fr, parts) == [finishReason |-> fr, parts |-> parts]
Response(br, cands)  == [blockReason |-> br, candidates |-> cands]

\* A "string | undefined" value.
Undefined   == [defined |-> FALSE, value |-> ""]
Defined(t)  == [defined |-> TRUE,  value |-> t]

\* A "GenerateContentResponse | undefined" value.
NoResponse      == [present |-> FALSE, resp |-> Response("", <<>>)]
SomeResponse(r) == [present |-> TRUE,  resp |-> r]

\* r.candidates?.[0]?.finishReason
FinishReasonOf(r) ==
  IF r.candidates = <<>> THEN "" ELSE r.candidates[1].finishReason

\* r.candidates?.[0]?.content?.parts?.[0]?.text, kept when it is a string
FirstPartText(r) ==
  IF r.candidates = <<>> THEN Undefined
  ELSE IF r.candidates[1].parts = <<>> THEN Undefined
  ELSE IF r.candidates[1].parts[1].hasText
    THEN Defined(r.candidates[1].parts[1].text)
  ELSE Undefined

\* The result of a function that returns or throws.
Returned(v) == [threw |-> FALSE, value |-> v, error |-> Err("")]
Threw(e)    == [threw |-> TRUE,  value |-> Undefined, error |-> e]

\* ProcessStreamChunk without the tests for a block: the text is extracted.
ProcessStreamChunkNoBlock(chunk) == Returned(FirstPartText(chunk))

ProcessStreamChunk(chunk) ==
  IF chunk.blockReason # ""
    THEN Threw(Err("Content generation blocked during stream. Reason: "
                     \o chunk.blockReason))
  ELSE IF FinishReasonOf(chunk) = "SAFETY"
    THEN Threw(Err("Content generation blocked during stream. Finish Reason: SAFETY"))
  ELSE Returned(FirstPartText(chunk))

\* StreamLoop with the chunk text assigned to the accumulator, not appended.
RECURSIVE StreamLoopOverwrite(_, _, _)
StreamLoopOverwrite(stream, i, acc) ==
  IF i > Len(stream.chunks)
    THEN [threw |-> stream.fails, error |-> stream.error,
          text |-> acc, consumed |-> i - 1]
  ELSE LET c == ProcessStreamChunk(stream.chunks[i])
       IN  IF c.threw
             THEN [threw |-> TRUE, error |-> c.error, text |-> acc, consumed |-> i]
           ELSE StreamLoopOverwrite(stream, i + 1,
                                    IF c.value.defined /\ c.value.value # ""
                                      THEN c.value.value ELSE acc)

\* The for-await loop of processStreamResponse from chunk i on: the text
\* accumulated, the number of chunks consumed, and the error that ended it.
\* A stream is [chunks |-> sequence of responses, fails |-> BOOLEAN,
\* error |-> the error its iterator throws after the last chunk].
RECURSIVE StreamLoop(_, _, _)
StreamLoop(stream, i, acc) ==
  IF i > Len(stream.chunks)
    THEN [threw |-> stream.fails, error |-> stream.error,
          text |-> acc, consumed |-> i - 1]
  ELSE LET c == ProcessStreamChunk(stream.chunks[i])
       IN  IF c.threw
             THEN [threw |-> TRUE, error |-> c.error, text |-> acc, consumed |-> i]
           ELSE StreamLoop(stream, i + 1,
                           IF c.value.defined /\ c.value.value # ""
                             THEN acc \o c.value.value ELSE acc)

\* ProcessStreamResponse returning the text accumulated so far when the stream
\* breaks off after some text.
ProcessStreamResponsePartial(stream) ==
  LET loop == StreamLoop(stream, 1, "")
  IN  [threw |-> loop.threw /\ loop.text = "",
       error |-> loop.error,
       text |-> Defined(loop.text),
       finalResponse |-> IF loop.consumed = 0 THEN NoResponse
                         ELSE SomeResponse(stream.chunks[loop.consumed]),
       consumed |-> loop.consumed]

\* ProcessStreamResponse throwing on every final finish reason but STOP and
\* unspecified.
ProcessStreamResponseStrictFinish(stream) ==
  LET loop == StreamLoop(stream, 1, "")
      low  == ToLowerCase(loop.error.message)
      last == IF loop.consumed = 0 THEN NoResponse
              ELSE SomeResponse(stream.chunks[loop.consumed])
      final == FirstPartText(last.resp)
  IN  IF loop.threw
        THEN [threw |-> TRUE,
              error |-> IF Includes(low, "safety") \/ Includes(low, "blocked")
                          THEN Err("Content generation blocked. Stream Error: "
                                     \o loop.error.message)
                        ELSE loop.error,
              text |-> Undefined, finalResponse |-> NoResponse,
              consumed |-> loop.consumed]
      ELSE IF last.present /\ last.resp.blockReason # ""
        THEN [threw |-> TRUE,
              error |-> Err("Content generation blocked. Final Stream Chunk Reason: "
                              \o last.resp.blockReason),
              text |-> Undefined, finalResponse |-> NoResponse,
              consumed |-> loop.consumed]
      ELSE IF last.present /\ FinishReasonOf(last.resp)
                             \notin {"", "STOP", "FINISH_REASON_UNSPECIFIED"}
        THEN [threw |-> TRUE,
              error |-> Err("Content generation blocked. Final Stream Chunk Finish Reason: SAFETY"),
              text |-> Undefined, finalResponse |-> NoResponse,
              consumed |-> loop.consumed]
      ELSE [threw |-> FALSE, error |-> Err(""),
            text |-> IF last.present /\ loop.text = "" /\ final.defined
                       THEN final ELSE Defined(loop.text),
            finalResponse |-> last,
            consumed |-> loop.consumed]

\* The result of processStreamResponse: {text, finalResponse} or a throw;
\* consumed counts the chunks read from the stream.
ProcessStreamResponse(stream) ==
  LET loop == StreamLoop(stream, 1, "")
      low  == ToLowerCase(loop.error.message)
      last == IF loop.consumed = 0 THEN NoResponse
              ELSE SomeResponse(stream.chunks[loop.consumed])
      final == FirstPartText(last.resp)
  IN  IF loop.threw
        THEN [threw |-> TRUE,
              error |-> IF Includes(low, "safety") \/ Includes(low, "blocked")
                          THEN Err("Content generation blocked. Stream Error: "
                                     \o loop.error.message)
                        ELSE loop.error,
              text |-> Undefined, finalResponse |-> NoResponse,
              consumed |-> loop.consumed]
      ELSE IF last.present /\ last.resp.blockReason # ""
        THEN [threw |-> TRUE,
              error |-> Err("Content generation blocked. Final Stream Chunk Reason: "
                              \o last.resp.blockReason),
              text |-> Undefined, finalResponse |-> NoResponse,
              consumed |-> loop.consumed]
      ELSE IF last.present /\ FinishReasonOf(last.resp) = "SAFETY"
        THEN [threw |-> TRUE,
              error |-> Err("Content generation blocked. Final Stream Chunk Finish Reason: SAFETY"),
              text |-> Undefined, finalResponse |-> NoResponse,
              consumed |-> loop.consumed]
      ELSE [threw |-> FALSE, error |-> Err(""),
            text |-> IF last.present /\ loop.text = "" /\ final.defined
                       THEN final ELSE Defined(loop.text),
            finalResponse |-> last,
            consumed |-> loop.consumed]

\* The result of processNonStreamingResponse on what generateContent gave:
\* [kind |-> "response", resp |-> r] or [kind |-> "error", error |-> e].
ProcessNonStreamingResponse(outcome) ==
  LET r == outcome.resp
      thrown ==
        IF outcome.kind = "error" THEN Threw(outcome.error)
        ELSE IF r.blockReason # ""
          THEN Threw(Err("Content generation blocked. Response Reason: "
                           \o r.blockReason))
        ELSE IF FinishReasonOf(r) = "SAFETY"
          THEN Threw(Err("Content generation blocked. Response Finish Reason: SAFETY"))
        ELSE Returned(FirstPartText(r))
      low == ToLowerCase(thrown.error.message)
  IN  IF thrown.threw
        THEN [threw |-> TRUE,
              error |-> IF \/ Includes(low, "safety")
                           \/ Includes(low, "prompt blocked")
                           \/ Includes(low, "content blocked")
                           \/ thrown.error.status = "BLOCKED"
                          THEN Err("Content generation blocked. Call Reason: "
                                     \o thrown.error.message)
                        ELSE thrown.error,
              text |-> Undefined, finalResponse |-> NoResponse, consumed |-> 0]
      ELSE [threw |-> FALSE, error |-> Err(""),
            text |-> thrown.value, finalResponse |-> SomeResponse(r),
            consumed |-> 0]

\* HasFunctionCallsInResponse finding no function call.
HasFunctionCallsInResponseNone(response) == FALSE

HasFunctionCallsInResponse(response) ==
  /\ response.present
  /\ response.resp.candidates # <<>>
  /\ \E i \in DOMAIN response.resp.candidates[1].parts :
       response.resp.candidates[1].parts[i].functionCall

EmptyResponseMessage ==
  "Received empty or non-text response without function call."

\* AttemptBody without the validity gate: an empty response is returned.
AttemptBodyNoGate(useStreaming, outcome) ==
  LET res == IF useStreaming
               THEN IF outcome.kind = "error"
                      THEN [threw |-> TRUE, error |-> outcome.error,
                            text |-> Undefined, finalResponse |-> NoResponse,
                            consumed |-> 0]
                    ELSE ProcessStreamResponse(outcome.stream)
             ELSE ProcessNonStreamingResponse(outcome)
      responseText == IF res.text.defined THEN res.text.value ELSE ""
  IN  IF res.threw
        THEN [threw |-> TRUE, error |-> res.error, text |-> "",
              consumed |-> res.consumed]
      ELSE [threw |-> FALSE, error |-> Err(""), text |-> responseText,
            consumed |-> res.consumed]

\* The try block of one attempt of callGenerativeAI, from the provider's
\* answer on: [threw, error] when it throws, [text] when it returns, and the
\* number of stream chunks it consumed.
\* A provider outcome is [kind |-> "error", error], [kind |-> "response",
\* resp] or [kind |-> "stream", stream]; a rejected generateContentStream
\* is the kind "error".
AttemptBody(useStreaming, outcome) ==
  LET res == IF useStreaming
               THEN IF outcome.kind = "error"
                      THEN [threw |-> TRUE, error |-> outcome.error,
                            text |-> Undefined, finalResponse |-> NoResponse,
                            consumed |-> 0]
                    ELSE ProcessStreamResponse(outcome.stream)
             ELSE ProcessNonStreamingResponse(outcome)
      hasFunctionCallResult == HasFunctionCallsInResponse(res.finalResponse)
      responseText == IF res.text.defined THEN res.text.value ELSE ""
  IN  IF res.threw
        THEN [threw |-> TRUE, error |-> res.error, text |-> "",
              consumed |-> res.consumed]
      ELSE IF responseText = "" /\ ~hasFunctionCallResult
        THEN [threw |-> TRUE, error |-> Err(EmptyResponseMessage), text |-> "",
              consumed |-> res.consumed]
      ELSE [threw |-> FALSE, error |-> Err(""), text |-> responseText,
            consumed |-> res.consumed]

(***************************************************************************)
(* Configuration (src/src/config.ts) and the client handle                 *)
(***************************************************************************)

\* The process environment as config.ts reads it at module load.  config.ts
\* exits unless the credentials of the chosen connection method are set, and
\* getAIConfig validates AI_MAX_RETRIES and AI_RETRY_DELAY_MS to integers >= 0.
\* An unset variable is the empty string.
Environment(method, project, key, streaming, retries, delayMs) ==
  [connectionMethod |-> method, GOOGLE_CLOUD_PROJECT |-> project,
   GEMINI_API_KEY |-> key, useStreaming |-> streaming,
   maxRetries |-> retries, retryDelayMs |-> delayMs]

\* getAIConfig() under environment e; GCLOUD_LOCATION defaults to us-central1.
GetAIConfig(e) ==
  [connectionMethod |-> e.connectionMethod,
   useStreaming     |-> e.useStreaming,
   maxRetries       |-> e.maxRetries,
   retryDelayMs     |-> e.retryDelayMs,
   gcpProjectId     |-> e.GOOGLE_CLOUD_PROJECT,
   gcpLocation      |-> "us-central1",
   geminiApiKey     |-> e.GEMINI_API_KEY]

\* The value of generativeClient: undefined, or a GoogleGenAI handle, which is
\* the options it was constructed with.
NoClient == [present |-> FALSE, vertexai |-> FALSE, project |-> "",
             location |-> "", apiKey |-> "", googleAuthOptions |-> FALSE]

VertexClient(project, location, auth) ==
  [present |-> TRUE, vertexai |-> TRUE, project |-> project,
   location |-> location, apiKey |-> "", googleAuthOptions |-> auth]

ApiKeyClient(key) ==
  [present |-> TRUE, vertexai |-> FALSE, project |-> "",
   location |-> "", apiKey |-> key, googleAuthOptions |-> FALSE]

\* The connection method a handle was constructed for.
MethodOf(client) == IF client.vertexai THEN "vertex" ELSE "apiKey"

\* InitializeAIClient with the location test left out.
InitializeAIClientNoLocation(customConfig, googleAuthOptions) ==
  IF customConfig.connectionMethod = "vertex"
    THEN IF customConfig.gcpProjectId = ""
           THEN [threw |-> TRUE, client |-> NoClient,
                 error |-> McpError("Failed to initialize AI client: "
                   \o "Missing GOOGLE_CLOUD_PROJECT or GOOGLE_CLOUD_LOCATION for Vertex AI connection.")]
         ELSE [threw |-> FALSE, error |-> McpError(""),
               client |-> VertexClient(customConfig.gcpProjectId,
                                       customConfig.gcpLocation,
                                       googleAuthOptions)]
  ELSE IF customConfig.geminiApiKey = ""
    THEN [threw |-> TRUE, client |-> NoClient,
          error |-> McpError("Failed to initialize AI client: "
            \o "Missing GEMINI_API_KEY for API Key connection.")]
  ELSE [threw |-> FALSE, error |-> McpError(""),
        client |-> ApiKeyClient(customConfig.geminiApiKey)]

\* initializeAIClient(customConfig, googleAuthOptions): the handle it assigns to
\* generativeClient and returns, or the McpError it throws (nothing assigned).
InitializeAIClient(customConfig, googleAuthOptions) ==
  IF customConfig.connectionMethod = "vertex"
    THEN IF customConfig.gcpProjectId = "" \/ customConfig.gcpLocation = ""
           THEN [threw |-> TRUE, client |-> NoClient,
                 error |-> McpError("Failed to initialize AI client: "
                   \o "Missing GOOGLE_CLOUD_PROJECT or GOOGLE_CLOUD_LOCATION for Vertex AI connection.")]
         ELSE [threw |-> FALSE, error |-> McpError(""),
               client |-> VertexClient(customConfig.gcpProjectId,
                                       customConfig.gcpLocation,
                                       googleAuthOptions)]
  ELSE IF customConfig.geminiApiKey = ""
    THEN [threw |-> TRUE, client |-> NoClient,
          error |-> McpError("Failed to initialize AI client: "
            \o "Missing GEMINI_API_KEY for API Key connection.")]
  ELSE [threw |-> FALSE, error |-> McpError(""),
        client |-> ApiKeyClient(customConfig.geminiApiKey)]

\* The customConfig argument of callGenerativeAI: absent, or a configuration.
NoConfig        == [given |-> FALSE, config |-> GetAIConfig(Environment("vertex", "", "", TRUE, 0, 0))]
GivenConfig(c)  == [given |-> TRUE, config |-> c]

(***************************************************************************)
(* State                                                                   *)
(***************************************************************************)

\* The invocations of callGenerativeAI that may be in progress.
Procs == {"A", "B"}

VARIABLES
  env,              \* the process environment, fixed at module load
  generativeClient, \* the module-level client handle
  pc,               \* per invocation: idle, awaiting, sleeping, returned, failed
  cfg,              \* per invocation: config, and whether customConfig was given
  attempt,          \* per invocation: the loop variable
  requests,         \* per invocation: provider requests sent so far
  sleeps,           \* per invocation: backoff sleeps started so far
  usedClient,       \* per invocation: the handle the latest request went through
  constructed,      \* per invocation: whether it constructed a handle
  outcome,          \* per invocation: what the provider gave the current attempt
  caught,           \* per invocation: the error caught by the current attempt
  delay,            \* per invocation: the delay of the sleep in progress
  result,           \* per invocation: the text returned
  surfaced,         \* per invocation: the error thrown to the caller
  attemptTable,     \* AttemptResults, tabulated when the module is loaded
  fn, fnArg, fnRet  \* a pure function under check: its name, argument, result

engineVars == <<pc, cfg, attempt, requests, sleeps, usedClient, constructed,
                outcome, caught, delay, result, surfaced>>
fnVars == <<fn, fnArg, fnRet>>
vars == <<env, generativeClient, engineVars, attemptTable, fnVars>>


(***************************************************************************)
(* Provider outcomes                                                       *)
(***************************************************************************)

NoStream == [chunks |-> <<>>, fails |-> FALSE, error |-> Err("")]

\* generateContent or generateContentStream rejects with error e.
ErrorOutcome(e) ==
  [kind |-> "error", error |-> e, resp |-> Response("", <<>>), stream |-> NoStream]

\* generateContent resolves to response r.
ResponseOutcome(r) ==
  [kind |-> "response", error |-> Err(""), resp |-> r, stream |-> NoStream]

\* generateContentStream resolves to a stream that yields chunks and then
\* ends, or then throws e (fails).
StreamOutcome(chunks, fails, e) ==
  [kind |-> "stream", error |-> Err(""), resp |-> Response("", <<>>),
   stream |-> [chunks |-> chunks, fails |-> fails, error |-> e]]

NoOutcome ==
  [kind |-> "none", error |-> Err(""), resp |-> Response("", <<>>), stream |-> NoStream]

NoError  == [type |-> "none", code |-> "", message |-> ""]
NoCaught == [message |-> "", status |-> "none", string |-> ""]

\* Errors a provider call can reject with.
ProviderErrors ==
  { Err("got status: 429 Too Many Requests"),
    Err("503 Service Unavailable"),
    Err("Internal error encountered"),
    Err("DEADLINE_EXCEEDED: request timeout"),
    Err("socket hang up"),
    Err("Request blocked: 429 quota, 503"),
    Err("SAFETY timeout"),
    Err("Invalid argument"),
    Err(""),
    ThrownString("connection refused"),
    [message |-> "Request rejected (503)", status |-> "BLOCKED", string |-> "Error"] }

Text(t, fr) == Response("", <<Candidate(fr, <<TextPart(t)>>)>>)

\* Responses a provider call can resolve to, and chunks a stream can carry.
ProviderResponses ==
  { Text("Hello", "STOP"),
    Text("Hello", "MAX_TOKENS"),
    Text("", "STOP"),
    Response("", <<>>),
    Response("", <<Candidate("STOP", <<>>)>>),
    Response("", <<Candidate("STOP", <<CallPart>>)>>),
    Response("", <<Candidate("STOP", <<CallPart, TextPart("lo")>>)>>),
    Response("", <<Candidate("", <<OtherPart>>)>>),
    Response("SAFETY", <<>>),
    Response("OTHER", <<Candidate("", <<TextPart("Hel")>>)>>),
    Response("PROHIBITED_CONTENT", <<Candidate("STOP", <<CallPart>>)>>),
    Text("Hel", "SAFETY") }

ProviderStreams ==
  { StreamOutcome(<<>>, FALSE, Err("")),
    StreamOutcome(<<Text("Hel", ""), Text("lo", "STOP")>>, FALSE, Err("")),
    StreamOutcome(<<Text("Hel", "")>>, TRUE, Err("503 Service Unavailable")),
    StreamOutcome(<<Text("Hel", "")>>, TRUE, Err("stream blocked by peer")),
    StreamOutcome(<<Text("Hel", ""), Response("OTHER", <<>>), Text("lo", "STOP")>>,
                  FALSE, Err("")),
    StreamOutcome(<<Text("Hel", ""), Text("lo", "SAFETY")>>, FALSE, Err("")),
    StreamOutcome(<<Text("Hel", "SAFETY"), Text("lo", "STOP")>>, FALSE, Err("")),
    StreamOutcome(<<Text("", ""), Text("", "STOP")>>, FALSE, Err("")),
    StreamOutcome(<<Response("", <<Candidate("", <<CallPart>>)>>),
                    Response("", <<Candidate("STOP", <<>>)>>)>>, FALSE, Err("")),
    StreamOutcome(<<Response("", <<Candidate("STOP", <<CallPart>>)>>)>>,
                  FALSE, Err("")),
    StreamOutcome(<<Text("Hel", ""),
                    Response("", <<Candidate("STOP", <<CallPart>>)>>)>>,
                  FALSE, Err("")),
    StreamOutcome(<<Response("", <<Candidate("", <<CallPart, TextPart("Hel")>>)>>),
                    Text("lo", "STOP")>>, FALSE, Err("")) }

\* What the provider can give an attempt made in the given mode.
Outcomes(useStreaming) ==
  {ErrorOutcome(e) : e \in ProviderErrors}
    \cup (IF useStreaming THEN ProviderStreams
          ELSE {ResponseOutcome(r) : r \in ProviderResponses})

\* AttemptCatch with the raw message of the caught error as the final message.
AttemptCatchRaw(body) ==
  [threw |-> body.threw, error |-> body.error, text |-> body.text,
   consumed |-> body.consumed,
   processedError |-> ProcessResponseError(body.error),
   finalErrorMessage |-> body.error.message]

\* The catch block's view of an attempt: the classified error and the final
\* error message it would throw.
AttemptCatch(body) ==
  [threw |-> body.threw, error |-> body.error, text |-> body.text,
   consumed |-> body.consumed,
   processedError |-> ProcessResponseError(body.error),
   finalErrorMessage |-> FormatErrorMessage(ProcessResponseError(body.error))]

\* One attempt for every mode and outcome of the model.  The state holds this
\* table (attemptTable), which never changes, so that the string processing
\* is evaluated once per behaviour and not once per step.
AttemptResults ==
  [s \in BOOLEAN |-> [o \in Outcomes(s) |-> AttemptCatch(AttemptBody(s, o))]]

(***************************************************************************)
(* The inputs the model draws from                                         *)
(***************************************************************************)

\* The largest AI_MAX_RETRIES the environments of the model set.
MaxRetriesBound == 2

ConnectionMethods == {"vertex", "apiKey"}
RetryDelays == {0, 1000}
\* Values of Math.random() * 500, which lies in [0, 500).
JitterRange == 500
Jitters == {0, 250, JitterRange - 1}

\* The environments config.ts lets the process start with.
Environments ==
  { e \in { Environment(m, p, k, s, r, d) :
              m \in ConnectionMethods, p \in {"", "my-project"},
              k \in {"", "my-key"}, s \in BOOLEAN,
              r \in 0..MaxRetriesBound, d \in RetryDelays } :
      \/ e.connectionMethod = "vertex" /\ e.GOOGLE_CLOUD_PROJECT # ""
      \/ e.connectionMethod = "apiKey" /\ e.GEMINI_API_KEY # "" }

\* The customConfig arguments callers pass: none (debug_wrapper.ts), the
\* default configuration, or the default with the connection method replaced
\* (handleGenericAITool's override).
CallConfigs(e) ==
  {NoConfig} \cup
  {GivenConfig([GetAIConfig(e) EXCEPT !.connectionMethod = m]) :
     m \in ConnectionMethods}

(***************************************************************************)
(* callGenerativeAI                                                        *)
(***************************************************************************)

\* The configuration invocation p runs with: customConfig || getAIConfig().
Config(p) == IF cfg[p].given THEN cfg[p].config ELSE GetAIConfig(env)

\* The test that guards the re-initialization of the handle.
ClientIsStale(client, custom, e) ==
  \/ ~client.present
  \/ /\ custom.given
     /\ custom.config.connectionMethod # GetAIConfig(e).connectionMethod

\* ShouldRetry with <= for <.
ShouldRetryOffByOne(processedError, n, maxRetries) ==
  processedError.retryable /\ n <= maxRetries

\* ShouldRetry without the test of the attempt index.
ShouldRetryAlways(processedError, n, maxRetries) == processedError.retryable

\* processedError.retryable && attempt < maxRetries
ShouldRetry(processedError, n, maxRetries) ==
  processedError.retryable /\ n < maxRetries

\* BackoffDelay with the exponent of the coming attempt.
BackoffDelayNextAttempt(retryDelayMs, n, jitter) ==
  retryDelayMs * (2 ^ (n + 1)) + jitter

\* retryDelayMs * Math.pow(2, attempt) + jitter
BackoffDelay(retryDelayMs, n, jitter) == retryDelayMs * (2 ^ n) + jitter

MaxRetriesMessage(maxRetries) ==
  "Max retries (" \o ToString(maxRetries + 1)
    \o ") reached for GenAI call without success."

\* No invocation in progress.
EngineIdle ==
  /\ pc = [p \in Procs |-> "idle"]
  /\ cfg = [p \in Procs |-> NoConfig]
  /\ attempt = [p \in Procs |-> 0]
  /\ requests = [p \in Procs |-> 0]
  /\ sleeps = [p \in Procs |-> 0]
  /\ usedClient = [p \in Procs |-> NoClient]
  /\ constructed = [p \in Procs |-> FALSE]
  /\ outcome = [p \in Procs |-> NoOutcome]
  /\ caught = [p \in Procs |-> NoCaught]
  /\ delay = [p \in Procs |-> 0]
  /\ result = [p \in Procs |-> ""]
  /\ surfaced = [p \in Procs |-> NoError]

\* No pure function under check.
FnIdle ==
  /\ fn = "none"
  /\ fnArg = <<>>
  /\ fnRet = <<>>

\* The state after the module is loaded in one of the environments envs: the
\* default handle is constructed (a failure would end the process).
InitIn(envs) ==
  /\ env \in envs
  /\ generativeClient = InitializeAIClient(GetAIConfig(env), FALSE).client
  /\ attemptTable = AttemptResults
  /\ EngineIdle
  /\ FnIdle

\* Call with the handle it constructs kept to the invocation: the shared
\* generativeClient is left as it was.
CallKeepsShared(p, custom) ==
  LET config == IF custom.given THEN custom.config ELSE GetAIConfig(env)
      stale  == ClientIsStale(generativeClient, custom, env)
      init   == InitializeAIClient(config, FALSE)
      client == IF stale THEN init.client ELSE generativeClient
  IN  /\ pc[p] \in {"idle", "returned", "failed"}
      /\ ~(stale /\ init.threw)
      /\ cfg' = [cfg EXCEPT ![p] = custom]
      /\ constructed' = [constructed EXCEPT ![p] = stale]
      /\ attempt' = [attempt EXCEPT ![p] = 0]
      /\ sleeps' = [sleeps EXCEPT ![p] = 0]
      /\ outcome' = [outcome EXCEPT ![p] = NoOutcome]
      /\ caught' = [caught EXCEPT ![p] = NoCaught]
      /\ delay' = [delay EXCEPT ![p] = 0]
      /\ result' = [result EXCEPT ![p] = ""]
      /\ surfaced' = [surfaced EXCEPT ![p] = NoError]
      /\ pc' = [pc EXCEPT ![p] = "awaiting"]
      /\ requests' = [requests EXCEPT ![p] = 1]
      /\ usedClient' = [usedClient EXCEPT ![p] = client]
      /\ UNCHANGED <<env, generativeClient, attemptTable, fnVars>>

\* Call assigning to generativeClient whatever the construction yields: a
\* failed construction leaves it undefined.
CallClearsHandle(p, custom) ==
  LET config == IF custom.given THEN custom.config ELSE GetAIConfig(env)
      stale  == ClientIsStale(generativeClient, custom, env)
      init   == InitializeAIClient(config, FALSE)
      client == IF stale THEN init.client ELSE generativeClient
      thrown == IF stale /\ init.threw THEN init.error
                ELSE IF ~(0 <= config.maxRetries)
                  THEN McpError(MaxRetriesMessage(config.maxRetries))
                ELSE NoError
  IN  /\ pc[p] \in {"idle", "returned", "failed"}
      /\ cfg' = [cfg EXCEPT ![p] = custom]
      /\ generativeClient' = client
      /\ constructed' = [constructed EXCEPT ![p] = stale /\ ~init.threw]
      /\ attempt' = [attempt EXCEPT ![p] = 0]
      /\ sleeps' = [sleeps EXCEPT ![p] = 0]
      /\ outcome' = [outcome EXCEPT ![p] = NoOutcome]
      /\ caught' = [caught EXCEPT ![p] = NoCaught]
      /\ delay' = [delay EXCEPT ![p] = 0]
      /\ result' = [result EXCEPT ![p] = ""]
      /\ surfaced' = [surfaced EXCEPT ![p] = thrown]
      /\ IF thrown = NoError
           THEN /\ pc' = [pc EXCEPT ![p] = "awaiting"]
                /\ requests' = [requests EXCEPT ![p] = 1]
                /\ usedClient' = [usedClient EXCEPT ![p] = client]
           ELSE /\ pc' = [pc EXCEPT ![p] = "failed"]
                /\ requests' = [requests EXCEPT ![p] = 0]
                /\ usedClient' = [usedClient EXCEPT ![p] = NoClient]
      /\ UNCHANGED <<env, attemptTable, fnVars>>

\* callGenerativeAI(payload, tools, custom) is called as invocation p and runs
\* to its first await: it makes sure of the handle, enters the loop and sends
\* the first request; or it throws.
Call(p, custom) ==
  LET config == IF custom.given THEN custom.config ELSE GetAIConfig(env)
      stale  == ClientIsStale(generativeClient, custom, env)
      init   == InitializeAIClient(config, FALSE)
      client == IF stale THEN init.client ELSE generativeClient
      thrown == IF stale /\ init.threw THEN init.error
                ELSE IF ~(0 <= config.maxRetries)
                  THEN McpError(MaxRetriesMessage(config.maxRetries))
                ELSE NoError
  IN  /\ pc[p] \in {"idle", "returned", "failed"}
      /\ cfg' = [cfg EXCEPT ![p] = custom]
      /\ generativeClient' = IF stale /\ init.threw THEN generativeClient ELSE client
      /\ constructed' = [constructed EXCEPT ![p] = stale /\ ~init.threw]
      /\ attempt' = [attempt EXCEPT ![p] = 0]
      /\ sleeps' = [sleeps EXCEPT ![p] = 0]
      /\ outcome' = [outcome EXCEPT ![p] = NoOutcome]
      /\ caught' = [caught EXCEPT ![p] = NoCaught]
      /\ delay' = [delay EXCEPT ![p] = 0]
      /\ result' = [result EXCEPT ![p] = ""]
      /\ surfaced' = [surfaced EXCEPT ![p] = thrown]
      /\ IF thrown = NoError
           THEN /\ pc' = [pc EXCEPT ![p] = "awaiting"]
                /\ requests' = [requests EXCEPT ![p] = 1]
                /\ usedClient' = [usedClient EXCEPT ![p] = client]
           ELSE /\ pc' = [pc EXCEPT ![p] = "failed"]
                /\ requests' = [requests EXCEPT ![p] = 0]
                /\ usedClient' = [usedClient EXCEPT ![p] = NoClient]
      /\ UNCHANGED <<env, attemptTable, fnVars>>

\* The provider answers p's request with o and the attempt returns its text.
AttemptReturns(p, o) ==
  LET body == attemptTable[Config(p).useStreaming][o]
  IN  /\ pc[p] = "awaiting"
      /\ ~body.threw
      /\ pc' = [pc EXCEPT ![p] = "returned"]
      /\ outcome' = [outcome EXCEPT ![p] = o]
      /\ result' = [result EXCEPT ![p] = body.text]
      /\ UNCHANGED <<env, generativeClient, cfg, attempt, requests, sleeps,
                     usedClient, constructed, caught, delay, surfaced, attemptTable,
                     fnVars>>

\* The provider answers p's request with o, the attempt throws, and the catch
\* block throws the formatted McpError.
AttemptFails(p, o) ==
  LET body == attemptTable[Config(p).useStreaming][o]
      processedError == body.processedError
  IN  /\ pc[p] = "awaiting"
      /\ body.threw
      /\ ~ShouldRetry(processedError, attempt[p], Config(p).maxRetries)
      /\ pc' = [pc EXCEPT ![p] = "failed"]
      /\ outcome' = [outcome EXCEPT ![p] = o]
      /\ caught' = [caught EXCEPT ![p] = body.error]
      /\ surfaced' = [surfaced EXCEPT ![p] =
                        McpError(body.finalErrorMessage)]
      /\ UNCHANGED <<env, generativeClient, cfg, attempt, requests, sleeps,
                     usedClient, constructed, delay, result, attemptTable,
                     fnVars>>

\* The provider answers p's request with o, the attempt throws, and the catch
\* block starts the backoff sleep.
AttemptRetries(p, o, jitter) ==
  LET body == attemptTable[Config(p).useStreaming][o]
      processedError == body.processedError
  IN  /\ pc[p] = "awaiting"
      /\ body.threw
      /\ ShouldRetry(processedError, attempt[p], Config(p).maxRetries)
      /\ pc' = [pc EXCEPT ![p] = "sleeping"]
      /\ outcome' = [outcome EXCEPT ![p] = o]
      /\ caught' = [caught EXCEPT ![p] = body.error]
      /\ delay' = [delay EXCEPT ![p] =
                     BackoffDelay(Config(p).retryDelayMs, attempt[p], jitter)]
      /\ sleeps' = [sleeps EXCEPT ![p] = @ + 1]
      /\ UNCHANGED <<env, generativeClient, cfg, attempt, requests,
                     usedClient, constructed, result, surfaced, attemptTable,
                     fnVars>>

\* Wake without the increment of the loop variable.
WakeSameAttempt(p) ==
  /\ pc[p] = "sleeping"
  /\ pc' = [pc EXCEPT ![p] = "awaiting"]
  /\ outcome' = [outcome EXCEPT ![p] = NoOutcome]
  /\ caught' = [caught EXCEPT ![p] = NoCaught]
  /\ delay' = [delay EXCEPT ![p] = 0]
  /\ requests' = [requests EXCEPT ![p] = @ + 1]
  /\ usedClient' = [usedClient EXCEPT ![p] = generativeClient]
  /\ UNCHANGED <<env, generativeClient, cfg, attempt, sleeps, constructed,
                 result, surfaced, attemptTable, fnVars>>

\* p's sleep ends: continue, attempt++, the loop test, and the next request
\* through the handle generativeClient holds now.
Wake(p) ==
  LET next == attempt[p] + 1
  IN  /\ pc[p] = "sleeping"
      /\ attempt' = [attempt EXCEPT ![p] = next]
      /\ outcome' = [outcome EXCEPT ![p] = NoOutcome]
      /\ caught' = [caught EXCEPT ![p] = NoCaught]
      /\ delay' = [delay EXCEPT ![p] = 0]
      /\ IF next <= Config(p).maxRetries
           THEN /\ pc' = [pc EXCEPT ![p] = "awaiting"]
                /\ requests' = [requests EXCEPT ![p] = @ + 1]
                /\ usedClient' = [usedClient EXCEPT ![p] = generativeClient]
                /\ surfaced' = surfaced
           ELSE /\ pc' = [pc EXCEPT ![p] = "failed"]
                /\ surfaced' = [surfaced EXCEPT ![p] =
                                  McpError(MaxRetriesMessage(Config(p).maxRetries))]
                /\ UNCHANGED <<requests, usedClient>>
      /\ UNCHANGED <<env, generativeClient, cfg, sleeps, constructed, result,
                     attemptTable, fnVars>>

\* One invocation at a time: the calls of the sequential caller "A".
Init == InitIn(Environments)

Next ==
  \/ \E custom \in CallConfigs(env) : Call("A", custom)
  \/ \E o \in Outcomes(Config("A").useStreaming) : AttemptReturns("A", o)
  \/ \E o \in Outcomes(Config("A").useStreaming) : AttemptFails("A", o)
  \/ \E o \in Outcomes(Config("A").useStreaming), j \in Jitters :
       AttemptRetries("A", o, j)
  \/ Wake("A")

Spec == Init /\ [][Next]_vars

(***************************************************************************)
(* Properties of callGenerativeAI                                          *)
(***************************************************************************)

\* The final response of a provider outcome: the single response, or the last
\* chunk of the stream.
FinalResponseOf(o) ==
  IF o.kind = "response" THEN SomeResponse(o.resp)
  ELSE IF o.kind = "stream" /\ o.stream.chunks # <<>>
    THEN SomeResponse(o.stream.chunks[Len(o.stream.chunks)])
  ELSE NoResponse

\* Whether the final response's first candidate has a function-call part.
FinalHasFunctionCall(o) ==
  LET f == FinalResponseOf(o)
  IN  /\ f.present
      /\ f.resp.candidates # <<>>
      /\ \E i \in 1..Len(f.resp.candidates[1].parts) :
           f.resp.candidates[1].parts[i].functionCall

\* C1: an invocation never returns from an attempt whose text is empty and
\* whose final response carries no function call; such an attempt throws.
C1_NoEmptyReturn ==
  \A p \in Procs :
    pc[p] = "returned" => (result[p] # "" \/ FinalHasFunctionCall(outcome[p]))

\* A streamed attempt with no text and no function call ended in the
\* empty-response error.
C1_Witness ==
  /\ pc["A"] = "failed"
  /\ outcome["A"].kind = "stream"
  /\ caught["A"].message = EmptyResponseMessage

\* C2: an invocation makes at most maxRetries + 1 requests and at most
\* maxRetries sleeps; with maxRetries = 0 a failed attempt is the only one and
\* ends the invocation without a sleep.
C2_AttemptCeiling ==
  \A p \in Procs :
    pc[p] # "idle" =>
      /\ requests[p] <= Config(p).maxRetries + 1
      /\ sleeps[p] <= Config(p).maxRetries
      /\ (Config(p).maxRetries = 0 /\ caught[p] # NoCaught) =>
           (pc[p] = "failed" /\ requests[p] = 1 /\ sleeps[p] = 0)

\* The ceiling is reached: every retry was used on network errors.
C2_Witness ==
  /\ pc["A"] = "failed"
  /\ Config("A").maxRetries >= 1
  /\ requests["A"] = Config("A").maxRetries + 1
  /\ sleeps["A"] = Config("A").maxRetries
  /\ caught["A"].message = "socket hang up"

\* Whether a message contains "blocked" or "safety", in any case.
MentionsBlock(m) ==
  Includes(ToLowerCase(m), "blocked") \/ Includes(ToLowerCase(m), "safety")

\* C3: an attempt that failed with an error whose message contains "blocked"
\* or "safety" ends the invocation: no sleep and no further attempt follows.
C3_SafetyNeverRetried ==
  \A p \in Procs :
    (caught[p] # NoCaught /\ MentionsBlock(caught[p].message)) =>
      pc[p] = "failed"

\* A first attempt failed with a message that holds "blocked", "429" and
\* "503" while retries remained.
C3_Witness ==
  /\ pc["A"] = "failed"
  /\ attempt["A"] = 0
  /\ Config("A").maxRetries >= 1
  /\ caught["A"].message = "Request blocked: 429 quota, 503"

\* C4: the sleep after the failure of attempt n lasts at least
\* retryDelayMs * 2^n and less than retryDelayMs * 2^n + 500 milliseconds.
C4_BackoffWindow ==
  \A p \in Procs :
    pc[p] = "sleeping" =>
      /\ Config(p).retryDelayMs * (2 ^ attempt[p]) <= delay[p]
      /\ delay[p] < Config(p).retryDelayMs * (2 ^ attempt[p]) + JitterRange

\* The sleep after the second failed attempt with a base delay of 1000 ms.
C4_Witness ==
  /\ pc["A"] = "sleeping"
  /\ attempt["A"] = 1
  /\ Config("A").retryDelayMs = 1000
  /\ delay["A"] > 2000

\* An outcome that is a plain text answer: a response, or a stream that ends
\* normally, whose every response has no block reason, a finish reason other
\* than SAFETY, and exactly one part, a text.
PlainResponse(r) ==
  /\ r.blockReason = ""
  /\ Len(r.candidates) = 1
  /\ r.candidates[1].finishReason # "SAFETY"
  /\ Len(r.candidates[1].parts) = 1
  /\ r.candidates[1].parts[1].hasText

PlainOutcome(o) ==
  \/ o.kind = "response" /\ PlainResponse(o.resp)
  \/ /\ o.kind = "stream"
     /\ ~o.stream.fails
     /\ o.stream.chunks # <<>>
     /\ \A i \in 1..Len(o.stream.chunks) : PlainResponse(o.stream.chunks[i])

RECURSIVE ChunkTexts(_)
ChunkTexts(chunks) ==
  IF chunks = <<>> THEN ""
  ELSE chunks[1].candidates[1].parts[1].text \o ChunkTexts(Tail(chunks))

\* The text of a plain outcome.
PlainTextOf(o) ==
  IF o.kind = "response" THEN o.resp.candidates[1].parts[1].text
  ELSE ChunkTexts(o.stream.chunks)

\* C5: when an attempt gets a valid text answer T after k retried failures,
\* the invocation returns T after exactly k sleeps and surfaces no error; a
\* valid text answer never ends in a failure or a retry.
C5_ReturnsAfterRetries ==
  \A p \in Procs :
    /\ pc[p] = "returned" =>
         /\ sleeps[p] = attempt[p]
         /\ requests[p] = attempt[p] + 1
         /\ surfaced[p] = NoError
         /\ PlainOutcome(outcome[p]) => result[p] = PlainTextOf(outcome[p])
    /\ (PlainOutcome(outcome[p]) /\ PlainTextOf(outcome[p]) # "") =>
         pc[p] = "returned"

\* "Hello" is returned from a stream by the third attempt.
C5_Witness ==
  /\ pc["A"] = "returned"
  /\ sleeps["A"] = 2
  /\ outcome["A"].kind = "stream"
  /\ result["A"] = "Hello"

\* C6 as stated: a failed invocation made an attempt, and its error is the
\* McpError whose message is formatErrorMessage of the classified error of
\* that last attempt.
C6_FormattedLastError ==
  \A p \in Procs :
    pc[p] = "failed" =>
      /\ requests[p] >= 1
      /\ surfaced[p] =
           McpError(FormatErrorMessage(ProcessResponseError(caught[p])))

\* C6, amended: an invocation surfaces an error exactly when it failed, the
\* error is an McpError(InternalError); after at least one attempt its message
\* is formatErrorMessage of the classified error of the last attempt, and
\* with no attempt made it is the error of initializeAIClient.
C6_SingleFormattedError ==
  \A p \in Procs :
    /\ pc[p] # "failed" => surfaced[p] = NoError
    /\ pc[p] = "failed" =>
         /\ surfaced[p].type = "McpError"
         /\ surfaced[p].code = "InternalError"
         /\ requests[p] >= 1 =>
              surfaced[p] =
                McpError(FormatErrorMessage(ProcessResponseError(caught[p])))
         /\ requests[p] = 0 =>
              /\ InitializeAIClient(Config(p), FALSE).threw
              /\ surfaced[p] = InitializeAIClient(Config(p), FALSE).error

\* An invocation failed on its second attempt, after a retried first one.
C6_Witness ==
  /\ pc["A"] = "failed"
  /\ requests["A"] = 2
  /\ caught["A"].message = "Invalid argument"

\* C7: the handle a request goes through was constructed for the connection
\* method of the invocation's configuration.
C7_HandleMatchesConfig ==
  \A p \in Procs :
    pc[p] = "awaiting" =>
      MethodOf(usedClient[p]) = Config(p).connectionMethod

\* The connection configuration of an invocation.
ConnectionOf(custom, e) ==
  LET c == IF custom.given THEN custom.config ELSE GetAIConfig(e)
  IN  <<c.connectionMethod, c.gcpProjectId, c.gcpLocation, c.geminiApiKey>>

\* C8: a call that follows a call with the same connection configuration
\* which constructed the handle does not construct it again.
C8_HandleReused ==
  [][\A p \in Procs :
       ( /\ pc[p] \in {"returned", "failed"}
         /\ constructed[p]
         /\ ConnectionOf(cfg'[p], env) = ConnectionOf(cfg[p], env) )
       => ~constructed'[p]]_vars

\* The texts of all text parts of a part list, in order.
RECURSIVE PartTexts(_)
PartTexts(parts) ==
  IF parts = <<>> THEN ""
  ELSE (IF parts[1].hasText THEN parts[1].text ELSE "") \o PartTexts(Tail(parts))

\* The texts of all text parts of all chunks, in arrival order.
RECURSIVE AllChunkTexts(_)
AllChunkTexts(chunks) ==
  IF chunks = <<>> THEN ""
  ELSE (IF chunks[1].candidates = <<>> THEN ""
        ELSE PartTexts(chunks[1].candidates[1].parts))
         \o AllChunkTexts(Tail(chunks))

\* C11: in streaming mode the text a successful attempt returns is the
\* concatenation, in arrival order, of all text parts of all chunks of the
\* stream, also when a chunk has several parts or its text is not the first.
C11_StreamTextIsAllParts ==
  \A p \in Procs :
    (pc[p] = "returned" /\ outcome[p].kind = "stream") =>
      result[p] = AllChunkTexts(outcome[p].stream.chunks)

\* Whether a chunk carries a block reason or the finish reason SAFETY.
BlockingChunk(chunk) ==
  chunk.blockReason # "" \/ FinishReasonOf(chunk) = "SAFETY"

\* The index of the first blocking chunk of a chunk sequence, 0 when none.
FirstBlocking(chunks) ==
  IF \E i \in 1..Len(chunks) : BlockingChunk(chunks[i])
    THEN Min({i \in 1..Len(chunks) : BlockingChunk(chunks[i])})
  ELSE 0

\* C12: when a chunk of the stream an attempt reads carries a block reason or
\* the finish reason SAFETY, the attempt consumes no chunk after it, returns
\* no text, and the invocation fails there with the terminal McpError: it
\* neither returns nor sleeps for another attempt.
C12_StreamBlockAborts ==
  \A p \in Procs :
    ( /\ pc[p] \in {"returned", "failed", "sleeping"}
      /\ outcome[p].kind = "stream"
      /\ FirstBlocking(outcome[p].stream.chunks) # 0 )
    => /\ attemptTable[TRUE][outcome[p]].consumed
            = FirstBlocking(outcome[p].stream.chunks)
       /\ pc[p] = "failed"
       /\ result[p] = ""
       /\ surfaced[p].type = "McpError"
       /\ requests[p] = attempt[p] + 1

\* A stream was aborted at a blocking chunk that was not its last, on the
\* first attempt of an invocation that could have retried.
C12_Witness ==
  /\ pc["A"] = "failed"
  /\ outcome["A"].kind = "stream"
  /\ FirstBlocking(outcome["A"].stream.chunks)
       \in 1..(Len(outcome["A"].stream.chunks) - 1)
  /\ attempt["A"] = 0
  /\ Config("A").maxRetries > 0
  /\ sleeps["A"] = 0

\* An outcome the provider delivered whole and unblocked: a response, or a
\* stream that ends normally, without block reason and finish reason SAFETY.
Unblocked(o) ==
  \/ o.kind = "response" /\ ~BlockingChunk(o.resp)
  \/ /\ o.kind = "stream"
     /\ ~o.stream.fails
     /\ FirstBlocking(o.stream.chunks) = 0

\* The final response of an outcome has no text and has a function call.
CallWithoutText(o) ==
  /\ Unblocked(o)
  /\ FinalHasFunctionCall(o)
  /\ PartTexts(FinalResponseOf(o).resp.candidates[1].parts) = ""

\* The texts of the first parts of the chunks, in arrival order.
RECURSIVE FirstPartTexts(_)
FirstPartTexts(chunks) ==
  IF chunks = <<>> THEN ""
  ELSE (IF FirstPartText(chunks[1]).defined
          THEN FirstPartText(chunks[1]).value ELSE "")
         \o FirstPartTexts(Tail(chunks))

BlockSignal(r) == IF r.blockReason # "" THEN r.blockReason ELSE "SAFETY"

\* C16: in non-streaming mode an attempt whose response carries a block
\* reason R, or the finish reason SAFETY, fails the invocation there: no
\* text is returned, no sleep or attempt follows, and the McpError surfaced
\* has R in its message.
C16_BlockedResponseFails ==
  \A p \in Procs :
    ( /\ pc[p] \in {"returned", "failed", "sleeping"}
      /\ outcome[p].kind = "response"
      /\ BlockingChunk(outcome[p].resp) )
    => /\ pc[p] = "failed"
       /\ result[p] = ""
       /\ requests[p] = attempt[p] + 1
       /\ sleeps[p] = attempt[p]
       /\ surfaced[p].type = "McpError"
       /\ Includes(surfaced[p].message, BlockSignal(outcome[p].resp))

\* The first attempt of an invocation with retries left got a response with
\* the block reason SAFETY and failed without a sleep.
C16_Witness ==
  /\ pc["A"] = "failed"
  /\ outcome["A"].kind = "response"
  /\ outcome["A"].resp.blockReason = "SAFETY"
  /\ Config("A").maxRetries > 0
  /\ requests["A"] = 1
  /\ sleeps["A"] = 0

\* C21: the error thrown after the retry loop, "Max retries (...) reached
\* for GenAI call without success.", is never surfaced: an invocation sleeps
\* for a retry only with attempt < maxRetries, so the loop test holds again
\* when it continues, and every iteration ends in a return, a terminal
\* McpError or such a continue.
C21_FallbackUnreachable ==
  \A p \in Procs :
    /\ surfaced[p] # McpError(MaxRetriesMessage(Config(p).maxRetries))
    /\ pc[p] = "sleeping" => attempt[p] < Config(p).maxRetries
    /\ pc[p] = "awaiting" => attempt[p] <= Config(p).maxRetries

\* The last permitted attempt failed with a retryable error, and the error
\* surfaced is the formatted error of that attempt.
C21_Witness ==
  /\ pc["A"] = "failed"
  /\ requests["A"] = Config("A").maxRetries + 1
  /\ outcome["A"].kind # "none"
  /\ attemptTable[Config("A").useStreaming][outcome["A"]].processedError.retryable
  /\ surfaced["A"] =
       McpError(attemptTable[Config("A").useStreaming][outcome["A"]].finalErrorMessage)

\* C22: a streaming attempt returns text only from a stream that ended
\* normally and unblocked, and then the text of that stream's own chunks;
\* an attempt whose stream broke off or was blocked returns nothing, whatever
\* it had accumulated, and nothing of it is in the result of a later attempt.
C22_NoPartialStreamText ==
  \A p \in Procs :
    /\ (pc[p] = "returned" /\ outcome[p].kind = "stream") =>
         /\ ~outcome[p].stream.fails
         /\ FirstBlocking(outcome[p].stream.chunks) = 0
         /\ result[p] = FirstPartTexts(outcome[p].stream.chunks)
    /\ pc[p] \in {"awaiting", "sleeping", "failed"} => result[p] = ""

\* A stream broke off with a retryable error after a chunk with text was
\* accumulated; the invocation sleeps for the retry and holds no text.
C22_Witness ==
  /\ pc["A"] = "sleeping"
  /\ outcome["A"].kind = "stream"
  /\ outcome["A"].stream.fails
  /\ FirstPartTexts(outcome["A"].stream.chunks) # ""
  /\ attemptTable[TRUE][outcome["A"]].consumed >= 1
  /\ result["A"] = ""

\* C23: the error of the validity gate (no text, no function call) is
\* classified Unknown and not retryable; the attempt that throws it ends the
\* invocation with the formatted McpError, with no sleep after it, however
\* many retries are left.
C23_EmptyResponseTerminal ==
  \A p \in Procs :
    caught[p] = Err(EmptyResponseMessage) =>
      LET processedError == ProcessResponseError(caught[p])
      IN  /\ processedError.type = Unknown
          /\ ~processedError.retryable
          /\ pc[p] = "failed"
          /\ requests[p] = attempt[p] + 1
          /\ surfaced[p] = McpError(FormatErrorMessage(processedError))

\* The first attempt found an empty response while retries were left.
C23_Witness ==
  /\ caught["A"] = Err(EmptyResponseMessage)
  /\ pc["A"] = "failed"
  /\ attempt["A"] = 0
  /\ Config("A").maxRetries >= 1
  /\ sleeps["A"] = 0

\* C24: the process runs only with a handle (a failure of the construction
\* at module load ends it); a call whose override configuration cannot be
\* constructed throws the construction's McpError, sends no request and leaves
\* generativeClient as it was; the next call without an override sends its
\* request through that handle.
C24_OverrideFailureLocal ==
  /\ [](generativeClient.present)
  /\ [][(/\ pc["A"] \in {"idle", "returned", "failed"}
         /\ cfg'["A"].given
         /\ ClientIsStale(generativeClient, cfg'["A"], env)
         /\ InitializeAIClient(cfg'["A"].config, FALSE).threw)
        => /\ generativeClient' = generativeClient
           /\ pc'["A"] = "failed"
           /\ requests'["A"] = 0
           /\ surfaced'["A"] = InitializeAIClient(cfg'["A"].config, FALSE).error]_vars
  /\ [][(/\ pc["A"] = "failed" /\ requests["A"] = 0 /\ cfg["A"].given
         /\ ~cfg'["A"].given)
        => /\ pc'["A"] = "awaiting"
           /\ requests'["A"] = 1
           /\ usedClient'["A"] = generativeClient
           /\ generativeClient' = generativeClient]_vars

\* A call with an override whose credentials are missing has failed; the
\* handle of the module load is still the cached one.
C24_Witness ==
  /\ pc["A"] = "failed"
  /\ requests["A"] = 0
  /\ cfg["A"].given
  /\ InitializeAIClient(cfg["A"].config, FALSE).threw
  /\ surfaced["A"] = InitializeAIClient(cfg["A"].config, FALSE).error
  /\ generativeClient = InitializeAIClient(GetAIConfig(env), FALSE).client

\* The block signal an attempt met: of the response, or of the first
\* blocking chunk of the stream ("": none).
BlockSignalOf(o) ==
  IF o.kind = "response"
    THEN (IF BlockingChunk(o.resp) THEN BlockSignal(o.resp) ELSE "")
  ELSE IF o.kind = "stream" /\ FirstBlocking(o.stream.chunks) # 0
    THEN BlockSignal(o.stream.chunks[FirstBlocking(o.stream.chunks)])
  ELSE ""

\* C27: when the provider reports a block reason R or the finish reason
\* SAFETY, in either mode, the surfaced message starts with "Content
\* generation blocked by R." (by SAFETY); and a message that names the default
\* "Safety Filter" comes from an error with no "Reason:" in it.
C27_ReasonIsProviders ==
  \A p \in Procs :
    pc[p] = "failed" /\ outcome[p].kind # "none" =>
      /\ BlockSignalOf(outcome[p]) # "" =>
           MatchAt(surfaced[p].message,
                   "Content generation blocked by " \o BlockSignalOf(outcome[p]) \o ". (",
                   1)
      /\ MatchAt(surfaced[p].message, "Content generation blocked by Safety Filter.", 1)
           => ~Includes(ToLowerCase(caught[p].message), "reason:")

\* C28: the message surfaced for a ServerError names the code word that was
\* matched, never "undefined".
C28_ServerCodeNamed ==
  \A p \in Procs :
    ( /\ pc[p] = "failed"
      /\ outcome[p].kind # "none"
      /\ attemptTable[Config(p).useStreaming][outcome[p]].processedError.type
           = ServerError )
    => \E w \in ServerCodeWords :
         MatchAt(surfaced[p].message,
                 "GenAI API error: Server error (" \o w \o ").", 1)

\* Whether some part of some chunk is a function call.
HasCallPart(chunks) ==
  \E i \in DOMAIN chunks :
    /\ chunks[i].candidates # <<>>
    /\ \E j \in DOMAIN chunks[i].candidates[1].parts :
         chunks[i].candidates[1].parts[j].functionCall

\* C29: a stream that ends normally and unblocked, carries no text and has a
\* function-call part in any of its chunks, makes the attempt return the
\* empty string.
C29_StreamCallAnywhere ==
  \A p \in Procs :
    ( /\ pc[p] \in {"returned", "failed", "sleeping"}
      /\ outcome[p].kind = "stream"
      /\ ~outcome[p].stream.fails
      /\ FirstBlocking(outcome[p].stream.chunks) = 0
      /\ AllChunkTexts(outcome[p].stream.chunks) = ""
      /\ HasCallPart(outcome[p].stream.chunks) )
    => pc[p] = "returned" /\ result[p] = ""

(***************************************************************************)
(* Termination                                                             *)
(***************************************************************************)

\* The provider answers the pending request of p.
Answer(p) ==
  \/ \E o \in Outcomes(Config(p).useStreaming) : AttemptReturns(p, o)
  \/ \E o \in Outcomes(Config(p).useStreaming) : AttemptFails(p, o)
  \/ \E o \in Outcomes(Config(p).useStreaming), j \in Jitters :
       AttemptRetries(p, o, j)

\* Every provider call and stream eventually completes, and so does every
\* backoff sleep (setTimeout fires).
SpecLive == Spec /\ WF_vars(Answer("A")) /\ WF_vars(Wake("A"))

\* C20: every invocation that has sent a request eventually returns or
\* fails; while it runs its attempt index is at most maxRetries, and the
\* index changes only by one upwards, at a retry, or to 0 at a new call.
C20_Terminates ==
  /\ (pc["A"] \in {"awaiting", "sleeping"}) ~> (pc["A"] \in {"returned", "failed"})
  /\ [](attempt["A"] <= Config("A").maxRetries)
  /\ [][ /\ (pc["A"] = "sleeping" /\ pc'["A"] = "awaiting")
              => attempt'["A"] = attempt["A"] + 1
         /\ attempt'["A"] # attempt["A"]
              => \/ pc["A"] = "sleeping" /\ attempt'["A"] = attempt["A"] + 1
                 \/ pc["A"] \in {"idle", "returned", "failed"} /\ attempt'["A"] = 0
       ]_vars

\* An invocation failed on its last permitted attempt, after maxRetries > 0
\* retries.
C20_Witness ==
  /\ pc["A"] = "failed"
  /\ Config("A").maxRetries > 0
  /\ attempt["A"] = Config("A").maxRetries
  /\ sleeps["A"] = Config("A").maxRetries
  /\ requests["A"] = Config("A").maxRetries + 1

(***************************************************************************)
(* Concurrent invocations                                                  *)
(***************************************************************************)

\* Invocations started by different protocol requests run on one event loop:
\* each runs without interruption from one await to the next, and at an await
\* (the provider's answer, the backoff sleep) any other invocation may run.
\* The steps of the invocations A and B interleave accordingly.
ConcurrentEnvironments ==
  { Environment(m, "my-project", "my-key", s, 1, 0) :
      m \in ConnectionMethods, s \in BOOLEAN }

\* What the provider gives the attempts of concurrent invocations.
ConcurrentOutcomes(useStreaming) ==
  { ErrorOutcome(Err("503 Service Unavailable")),
    ErrorOutcome(Err("Invalid argument")),
    IF useStreaming
      THEN StreamOutcome(<<Text("Hel", ""), Text("lo", "STOP")>>, FALSE, Err(""))
    ELSE ResponseOutcome(Text("Hello", "STOP")) }

InitConcurrent == InitIn(ConcurrentEnvironments)

NextConcurrent ==
  \E p \in Procs :
    \/ \E custom \in CallConfigs(env) : Call(p, custom)
    \/ \E o \in ConcurrentOutcomes(Config(p).useStreaming) : AttemptReturns(p, o)
    \/ \E o \in ConcurrentOutcomes(Config(p).useStreaming) : AttemptFails(p, o)
    \/ \E o \in ConcurrentOutcomes(Config(p).useStreaming) : AttemptRetries(p, o, 0)
    \/ Wake(p)

SpecConcurrent == InitConcurrent /\ [][NextConcurrent]_vars

\* Invocation p starts in this step and sends its first request.
Starts(p) == pc[p] \in {"idle", "returned", "failed"} /\ pc'[p] = "awaiting"

\* C17: the staleness test and the replacement of generativeClient are one
\* step.  Whatever the other invocation is doing, a step that finds the
\* handle stale leaves generativeClient holding the handle it constructed,
\* present and of the configured method, and that invocation's request goes
\* through it; and generativeClient changes in no other step.
C17_CheckAndReplaceAtomic ==
  [][ /\ \A p \in Procs :
           (Starts(p) /\ constructed'[p]) =>
             /\ generativeClient' = InitializeAIClient(Config(p)', FALSE).client
             /\ generativeClient'.present
             /\ usedClient'[p] = generativeClient'
      /\ generativeClient' # generativeClient =>
           \E p \in Procs : Starts(p) /\ constructed'[p] ]_vars

\* Both invocations found the handle stale and constructed one, and both are
\* awaiting the provider's answer to their first request.
C17_Witness ==
  /\ pc["A"] = "awaiting" /\ constructed["A"] /\ attempt["A"] = 0
  /\ pc["B"] = "awaiting" /\ constructed["B"] /\ attempt["B"] = 0
  /\ generativeClient = usedClient["B"]
  /\ MethodOf(generativeClient) # GetAIConfig(env).connectionMethod

\* C18: the handle an invocation works with keeps matching its connection
\* method over a retry: when the request before the sleep went through a
\* handle of the invocation's method, so does the request after it, whatever
\* another invocation did in between.
C18_HandleKeptAcrossRetry ==
  [][ \A p \in Procs :
        ( /\ pc[p] = "sleeping"
          /\ pc'[p] = "awaiting"
          /\ MethodOf(usedClient[p]) = Config(p).connectionMethod )
        => MethodOf(usedClient'[p]) = Config(p).connectionMethod ]_vars

(***************************************************************************)
(* initializeAIClient as a function of its arguments                       *)
(***************************************************************************)

\* The configurations initializeAIClient is applied to: every combination of
\* connection method and present or absent credentials.
InitializeConfigs ==
  { [connectionMethod |-> m, useStreaming |-> TRUE, maxRetries |-> 0,
     retryDelayMs |-> 0, gcpProjectId |-> p, gcpLocation |-> l,
     geminiApiKey |-> k] :
      m \in ConnectionMethods, p \in {"", "my-project"},
      l \in {"", "us-central1"}, k \in {"", "my-key"} }

\* The handle generativeClient holds when initializeAIClient is called: none
\* (module load) or the handle of an earlier call.
PriorClients ==
  {NoClient, VertexClient("my-project", "us-central1", FALSE),
   ApiKeyClient("my-key")}

InitInitialize ==
  /\ env = Environment("vertex", "my-project", "my-key", TRUE, 0, 0)
  /\ generativeClient \in PriorClients
  /\ attemptTable = <<>>
  /\ EngineIdle
  /\ fn = "none"
  /\ fnArg \in [config : InitializeConfigs, googleAuthOptions : BOOLEAN,
                prior : {generativeClient}]
  /\ fnRet = <<>>

\* initializeAIClient(fnArg.config, fnArg.googleAuthOptions) runs.
ApplyInitializeAIClient ==
  LET r == InitializeAIClient(fnArg.config, fnArg.googleAuthOptions)
  IN  /\ fn = "none"
      /\ fn' = "initializeAIClient"
      /\ fnRet' = r
      /\ generativeClient' = IF r.threw THEN generativeClient ELSE r.client
      /\ UNCHANGED <<env, engineVars, attemptTable, fnArg>>

SpecInitialize == InitInitialize /\ [][ApplyInitializeAIClient]_vars

\* Whether the credentials of a configuration's connection method are absent.
CredentialsMissing(c) ==
  \/ c.connectionMethod = "vertex" /\ (c.gcpProjectId = "" \/ c.gcpLocation = "")
  \/ c.connectionMethod = "apiKey" /\ c.geminiApiKey = ""

InitFailurePrefix == "Failed to initialize AI client: "

\* C9: with the credentials of the connection method absent initializeAIClient
\* throws the McpError "Failed to initialize AI client: ..." and leaves
\* generativeClient as it was; with them present it returns, and stores, a
\* handle of the requested method.
C9_InitializeChecksCredentials ==
  fn = "initializeAIClient" =>
    IF CredentialsMissing(fnArg.config)
      THEN /\ fnRet.threw
           /\ fnRet.error.type = "McpError"
           /\ MatchAt(fnRet.error.message, InitFailurePrefix, 1)
           /\ ~fnRet.client.present
           /\ generativeClient = fnArg.prior
      ELSE /\ ~fnRet.threw
           /\ fnRet.client.present
           /\ MethodOf(fnRet.client) = fnArg.config.connectionMethod
           /\ generativeClient = fnRet.client

\* A vertex configuration with a project and no location was refused while an
\* API-key handle was cached.
C9_Witness ==
  /\ fn = "initializeAIClient"
  /\ fnArg.config.connectionMethod = "vertex"
  /\ fnArg.config.gcpProjectId # ""
  /\ fnArg.config.gcpLocation = ""
  /\ fnRet.threw
  /\ generativeClient = ApiKeyClient("my-key")

(***************************************************************************)
(* processResponseError as a function of the error                        *)
(***************************************************************************)

\* The longest message, in fragments, the classifier is applied to.
MaxFragments == 2

\* The pieces messages are put together from.  Each piece but " " starts and
\* ends with a word character, and no pattern of the classifier arises across
\* the border of two pieces.
BlockFragments   == {"Blocked", "SAFETY"}
RateFragments    == {"429"}
CodeFragments    == {"500", "503", "Internal", "UNAVAILABLE"}
PhraseFragments  == {"Server Error"}
TimeoutFragments == {"DEADLINE_EXCEEDED", "Timeout"}
NetworkFragments == {"Network Error", "socket hang up", "Could not connect",
                     "connection refused"}
OtherFragments   == {" ", "x", "quota"}

Fragments ==
  BlockFragments \cup RateFragments \cup CodeFragments \cup PhraseFragments
    \cup TimeoutFragments \cup NetworkFragments \cup OtherFragments

FragmentLists ==
  UNION { [1..n -> Fragments] : n \in 0..MaxFragments }

RECURSIVE Join(_)
Join(frags) == IF frags = <<>> THEN "" ELSE frags[1] \o Join(Tail(frags))

InitClassify ==
  /\ env = Environment("vertex", "my-project", "my-key", TRUE, 0, 0)
  /\ generativeClient = InitializeAIClient(GetAIConfig(env), FALSE).client
  /\ attemptTable = <<>>
  /\ EngineIdle
  /\ fn = "none"
  /\ fnArg \in [frags : FragmentLists, asError : BOOLEAN]
  /\ fnRet = <<>>

\* The error the classifier is given: an Error with the message, or the
\* message thrown as a string.
ClassifyArgument(arg) ==
  IF arg.asError THEN Err(Join(arg.frags)) ELSE ThrownString(Join(arg.frags))

\* processResponseError(error) runs.
ApplyProcessResponseError ==
  /\ fn = "none"
  /\ fn' = "processResponseError"
  /\ fnRet' = ProcessResponseError(ClassifyArgument(fnArg))
  /\ UNCHANGED <<env, generativeClient, engineVars, attemptTable, fnArg>>

SpecClassify == InitClassify /\ [][ApplyProcessResponseError]_vars

Has(frags, S) == \E i \in 1..Len(frags) : frags[i] \in S

\* A code fragment that stands as a word of its own.
HasCodeWord(frags) ==
  \E i \in 1..Len(frags) :
    /\ frags[i] \in CodeFragments
    /\ i = 1 \/ frags[i - 1] = " "
    /\ i = Len(frags) \/ frags[i + 1] = " "

\* The classification the precedence order asks for.
ExpectedType(frags) ==
  IF Has(frags, BlockFragments) THEN Safety
  ELSE IF Has(frags, RateFragments) THEN RateLimit
  ELSE IF HasCodeWord(frags) \/ Has(frags, PhraseFragments) THEN ServerError
  ELSE IF Has(frags, TimeoutFragments) THEN Timeout
  ELSE IF Has(frags, NetworkFragments) THEN Network
  ELSE Unknown

\* C10: processResponseError classifies by the first match in the order
\* Safety, RateLimit, ServerError, Timeout, Network, Unknown, whatever the
\* case of the letters and whatever other patterns the message holds, and
\* retryable is true exactly for RateLimit, ServerError, Timeout and Network.
C10_ClassifiesByPrecedence ==
  fn = "processResponseError" =>
    /\ fnRet.type = ExpectedType(fnArg.frags)
    /\ fnRet.retryable =
         (ExpectedType(fnArg.frags) \in {RateLimit, ServerError, Timeout, Network})

\* A message with a rate-limit and a safety pattern was classified.
C10_Witness ==
  /\ fn = "processResponseError"
  /\ fnArg.frags = <<"429", "SAFETY">>
  /\ fnRet.type = Safety
  /\ ~fnRet.retryable

(***************************************************************************)
(* One attempt on the streaming and on the non-streaming path              *)
(***************************************************************************)

\* The longest stream, in chunks, the two paths are compared on.
MaxChunks == 2

\* The chunks the compared streams are made of.
PathChunks ==
  { Text("Hel", ""),
    Text("lo", "STOP"),
    Text("lo", "MAX_TOKENS"),
    Text("", "STOP"),
    Text("x", "SAFETY"),
    Response("", <<>>),
    Response("SAFETY", <<>>),
    Response("", <<Candidate("STOP", <<>>)>>),
    Response("", <<Candidate("", <<CallPart>>)>>),
    Response("", <<Candidate("", <<CallPart, TextPart("Hel")>>)>>) }

ChunkLists == UNION { [1..n -> PathChunks] : n \in 0..MaxChunks }

\* The parts of the first candidates of the chunks, in arrival order.
RECURSIVE AllParts(_)
AllParts(chunks) ==
  IF chunks = <<>> THEN <<>>
  ELSE (IF chunks[1].candidates = <<>> THEN <<>>
        ELSE chunks[1].candidates[1].parts) \o AllParts(Tail(chunks))

\* A part list with every run of adjacent text parts joined into one part.
RECURSIVE Coalesce(_)
Coalesce(parts) ==
  IF Len(parts) < 2 THEN parts
  ELSE IF parts[1].hasText /\ parts[2].hasText
    THEN Coalesce(<<TextPart(parts[1].text \o parts[2].text)>>
                    \o SubSeq(parts, 3, Len(parts)))
  ELSE <<parts[1]>> \o Coalesce(Tail(parts))

\* The single response that carries what a chunk sequence carries: the first
\* block reason, the finish reason of the first SAFETY chunk or else of the
\* last chunk, and all the parts, adjacent texts joined.
MergedResponse(chunks) ==
  LET blocks == {i \in 1..Len(chunks) : chunks[i].blockReason # ""}
      cands  == {i \in 1..Len(chunks) : chunks[i].candidates # <<>>}
      safety == {i \in cands : FinishReasonOf(chunks[i]) = "SAFETY"}
      finish == IF safety # {} THEN "SAFETY"
                ELSE FinishReasonOf(chunks[Len(chunks)])
  IN  Response(IF blocks = {} THEN "" ELSE chunks[Min(blocks)].blockReason,
               IF cands = {} THEN <<>>
               ELSE <<Candidate(finish, Coalesce(AllParts(chunks)))>>)

InitPaths ==
  /\ env = Environment("vertex", "my-project", "my-key", TRUE, 0, 0)
  /\ generativeClient = InitializeAIClient(GetAIConfig(env), FALSE).client
  /\ attemptTable = <<>>
  /\ EngineIdle
  /\ fn = "none"
  /\ fnArg \in [chunks : ChunkLists]
  /\ fnRet = <<>>

\* One attempt is made on each path: the stream of fnArg.chunks given to the
\* streaming path, the response merged from them to the non-streaming path.
ApplyBothPaths ==
  /\ fn = "none"
  /\ fn' = "attempt"
  /\ fnRet' = [streaming |->
                 AttemptBody(TRUE, StreamOutcome(fnArg.chunks, FALSE, Err(""))),
               single |->
                 AttemptBody(FALSE, ResponseOutcome(MergedResponse(fnArg.chunks)))]
  /\ UNCHANGED <<env, generativeClient, engineVars, attemptTable, fnArg>>

SpecPaths == InitPaths /\ [][ApplyBothPaths]_vars

\* C13: given a stream and the single response carrying the same parts and
\* the same block and finish signals, the streaming and the non-streaming
\* attempt both fail or both return, and then return the same text.
C13_PathsAgree ==
  fn = "attempt" =>
    /\ fnRet.streaming.threw = fnRet.single.threw
    /\ ~fnRet.streaming.threw => fnRet.streaming.text = fnRet.single.text

(***************************************************************************)
(* buildRequestParameters as a function of its arguments                   *)
(***************************************************************************)

\* An object is a function from its property names to values; reading a
\* property it does not have gives undefined.
Get(object, key) == IF key \in DOMAIN object THEN object[key] ELSE Undefined

\* An object without the property key.
Delete(object, key) == [k \in DOMAIN object \ {key} |-> object[k]]

\* BuildRequestParameters without the removal of an undefined
\* systemInstruction.
BuildRequestParametersKeep(payload, tools, modelId, generationConfig, safetySettings) ==
  [requestParams |->
     [model |-> modelId,
      contents |-> Get(payload, "contents"),
      systemInstruction |-> Get(payload, "systemInstruction"),
      config |-> [tools |-> tools, generationConfig |-> generationConfig,
                  safetySettings |-> safetySettings]],
   payload |-> payload]

\* buildRequestParameters: the object it returns, and its payload argument as
\* the call leaves it (nothing is assigned to it).
BuildRequestParameters(payload, tools, modelId, generationConfig, safetySettings) ==
  LET requestParams ==
        [model |-> modelId,
         contents |-> Get(payload, "contents"),
         systemInstruction |-> Get(payload, "systemInstruction"),
         config |-> [tools |-> tools, generationConfig |-> generationConfig,
                     safetySettings |-> safetySettings]]
  IN  [requestParams |->
         IF requestParams.systemInstruction = Undefined
           THEN Delete(requestParams, "systemInstruction")
         ELSE requestParams,
       payload |-> payload]

\* Payloads: contents, and a systemInstruction that is missing, undefined, or
\* a text (the empty text included).
Payloads ==
  { [contents |-> Defined(c)] : c \in {"Hi", "Summarize this"} }
    \cup { [contents |-> Defined(c), systemInstruction |-> v] :
             c \in {"Hi", "Summarize this"},
             v \in {Undefined, Defined("Be brief"), Defined("")} }

ToolLists == {Undefined, Defined("googleSearch"), Defined("functionDeclarations")}

ModelIds == {"gemini-2.5-pro", "gemini-2.5-flash"}

GenerationConfigs == [temperature : {0, 1}, maxOutputTokens : {256, 8192}]

SafetySettingLists ==
  { <<>>,
    <<"HARM_CATEGORY_HARASSMENT">>,
    <<"HARM_CATEGORY_HATE_SPEECH", "HARM_CATEGORY_SEXUALLY_EXPLICIT",
      "HARM_CATEGORY_DANGEROUS_CONTENT", "HARM_CATEGORY_HARASSMENT">> }

InitBuild ==
  /\ env = Environment("vertex", "my-project", "my-key", TRUE, 0, 0)
  /\ generativeClient = InitializeAIClient(GetAIConfig(env), FALSE).client
  /\ attemptTable = <<>>
  /\ EngineIdle
  /\ fn = "none"
  /\ fnArg \in [payload : Payloads, tools : ToolLists, modelId : ModelIds,
                generationConfig : GenerationConfigs,
                safetySettings : SafetySettingLists]
  /\ fnRet = <<>>

\* buildRequestParameters runs on fnArg.
ApplyBuildRequestParameters ==
  /\ fn = "none"
  /\ fn' = "buildRequestParameters"
  /\ fnRet' = BuildRequestParameters(fnArg.payload, fnArg.tools, fnArg.modelId,
                                     fnArg.generationConfig, fnArg.safetySettings)
  /\ UNCHANGED <<env, generativeClient, engineVars, attemptTable, fnArg>>

SpecBuild == InitBuild /\ [][ApplyBuildRequestParameters]_vars

\* C15: the object buildRequestParameters returns has a systemInstruction
\* property exactly when the payload's is not undefined, and then the
\* payload's; it has the model, the contents, the tools, the generation
\* configuration and the whole safetySettings list it was given; the payload
\* is as it was, and so is the module's state.
C15_RequestParameters ==
  fn = "buildRequestParameters" =>
    LET r == fnRet.requestParams
        given == Get(fnArg.payload, "systemInstruction")
    IN  /\ ("systemInstruction" \in DOMAIN r) = (given # Undefined)
        /\ given # Undefined => r.systemInstruction = given
        /\ r.model = fnArg.modelId
        /\ r.contents = fnArg.payload.contents
        /\ r.config = [tools |-> fnArg.tools,
                       generationConfig |-> fnArg.generationConfig,
                       safetySettings |-> fnArg.safetySettings]
        /\ fnRet.payload = fnArg.payload
        /\ generativeClient = InitializeAIClient(GetAIConfig(env), FALSE).client

\* Parameters were built from a payload without systemInstruction and four
\* safety settings.
C15_Witness ==
  /\ fn = "buildRequestParameters"
  /\ "systemInstruction" \notin DOMAIN fnArg.payload
  /\ Len(fnArg.safetySettings) = 4
  /\ DOMAIN fnRet.requestParams = {"model", "contents", "config"}

(***************************************************************************)
(* The tool-call dispatcher (src/src/index.ts, utils/tool_handlers.ts)     *)
(***************************************************************************)

\* The workspace is a function from paths to contents; "" is no file.
Paths == {"a.txt", "b.txt", "docs/c.txt"}

filesystemToolNames ==
  { "read_file_content", "read_multiple_files_content", "write_file_content",
    "edit_file_content", "create_directory", "list_directory_contents",
    "get_directory_tree", "move_file_or_directory", "search_filesystem",
    "get_filesystem_info" }

saveGenerateToolNames ==
  { "save_generate_project_guidelines", "save_doc_snippet",
    "save_topic_explanation", "save_answer_query_direct",
    "save_answer_query_websearch" }

MoveMultiple == "move_multiple_files_or_directories"

\* The names toolMap has a definition for, as far as the handlers name them.
toolMap == filesystemToolNames \cup saveGenerateToolNames \cup {MoveMultiple}

\* What a tool call gives: the handler it was routed to, whether
\* callGenerativeAI was called, the workspace after it, and the text it
\* returned or the McpError code it threw.
ToolResult(route, calledAI, files, code, text) ==
  [route |-> route, calledAI |-> calledAI, files |-> files,
   code |-> code, text |-> text]

\* buildPrompt of moveMultipleFilesOrDirectoriesTool: the error code it
\* throws, "" when the batch passes.
BuildPromptMoveMultiple(args) ==
  LET moves == IF "moves" \in DOMAIN args THEN args.moves ELSE <<>>
  IN  IF moves = <<>> THEN "InvalidParams"
      ELSE IF \E i \in 1..Len(moves) : moves[i].source = moves[i].destination
        THEN "InvalidParams"
      ELSE IF \E i, j \in 1..Len(moves) :
                /\ i < j
                /\ \/ moves[j].source = moves[i].source
                   \/ moves[j].destination = moves[i].destination
                   \/ moves[j].source = moves[i].destination
                   \/ moves[j].destination = moves[i].source
        THEN "InvalidParams"
      ELSE ""

\* fs.rename(source, destination) on the workspace.
Rename(files, source, destination) ==
  [files EXCEPT ![destination] = files[source], ![source] = ""]

\* handleFilesystemTool for the tools that move; the switch has no default.
HandleFilesystemTool(toolName, args, files) ==
  IF toolName = "move_file_or_directory"
    THEN IF args.source = args.destination
           THEN ToolResult("filesystem", FALSE, files, "InvalidParams", "")
         ELSE IF files[args.source] = ""
           THEN ToolResult("filesystem", FALSE, files, "InvalidParams", "")
         ELSE ToolResult("filesystem", FALSE,
                         Rename(files, args.source, args.destination), "",
                         "Successfully moved " \o args.source \o " to "
                           \o args.destination)
  ELSE ToolResult("filesystem", FALSE, files, "", "")

\* handleGenericAITool: buildPrompt, then callGenerativeAI, whose result ai
\* is the text returned or the McpError thrown.
HandleGenericAITool(toolName, args, files, ai) ==
  IF toolName = MoveMultiple /\ BuildPromptMoveMultiple(args) # ""
    THEN ToolResult("genericAI", FALSE, files, BuildPromptMoveMultiple(args), "")
  ELSE IF ai.threw
    THEN ToolResult("genericAI", TRUE, files, "InternalError", "")
  ELSE ToolResult("genericAI", TRUE, files, "", ai.text)

\* handleSaveGenerateTool: callGenerativeAI, then the text is written to
\* args.output_path.
HandleSaveGenerateTool(toolName, args, files, ai) ==
  IF ai.threw
    THEN ToolResult("saveGenerate", TRUE, files, "InternalError", "")
  ELSE ToolResult("saveGenerate", TRUE,
                  [files EXCEPT ![args.output_path] = ai.text], "",
                  "Successfully generated content and saved to "
                    \o args.output_path)

\* The CallToolRequestSchema handler.
HandleCallTool(toolName, args, files, ai) ==
  IF toolName \notin toolMap
    THEN ToolResult("none", FALSE, files, "MethodNotFound", "")
  ELSE IF toolName \in saveGenerateToolNames
    THEN HandleSaveGenerateTool(toolName, args, files, ai)
  ELSE IF toolName \in filesystemToolNames
    THEN HandleFilesystemTool(toolName, args, files)
  ELSE HandleGenericAITool(toolName, args, files, ai)

\* The longest batch of moves a call carries.
MaxMoves == 2

Moves == [source : Paths, destination : Paths]

MoveLists == UNION { [1..n -> Moves] : n \in 0..MaxMoves }

\* Workspaces: each path holds no file or a file with its own first content.
Workspaces == { f \in [Paths -> {""} \cup Paths] : \A q \in Paths : f[q] \in {"", q} }

\* What callGenerativeAI gives the handler that calls it.
AIResults == {[threw |-> FALSE, text |-> "generated"], [threw |-> TRUE, text |-> ""]}

\* Tool calls: a batch of moves, one move, a save/generate call, and a call
\* of a tool that is not registered.
ToolCalls ==
  { [toolName |-> MoveMultiple, args |-> [moves |-> ms]] : ms \in MoveLists }
    \cup { [toolName |-> "move_file_or_directory", args |-> m] : m \in Moves }
    \cup { [toolName |-> "save_doc_snippet", args |-> [output_path |-> q]] :
             q \in Paths }
    \cup { [toolName |-> "no_such_tool", args |-> [moves |-> <<>>]] }

InitDispatch ==
  /\ env = Environment("vertex", "my-project", "my-key", TRUE, 0, 0)
  /\ generativeClient = InitializeAIClient(GetAIConfig(env), FALSE).client
  /\ attemptTable = <<>>
  /\ EngineIdle
  /\ fn = "none"
  /\ fnArg \in [call : ToolCalls, files : Workspaces, ai : AIResults]
  /\ fnRet = <<>>

\* The server handles the tool call fnArg.call on the workspace fnArg.files.
ApplyHandleCallTool ==
  /\ fn = "none"
  /\ fn' = "callTool"
  /\ fnRet' = HandleCallTool(fnArg.call.toolName, fnArg.call.args,
                             fnArg.files, fnArg.ai)
  /\ UNCHANGED <<env, generativeClient, engineVars, attemptTable, fnArg>>

SpecDispatch == InitDispatch /\ [][ApplyHandleCallTool]_vars

\* A batch the tool's own validation accepts, whose sources exist and whose
\* destinations are free.
ValidBatch(moves, files) ==
  /\ moves # <<>>
  /\ \A i \in 1..Len(moves) :
       /\ moves[i].source # moves[i].destination
       /\ files[moves[i].source] # ""
       /\ files[moves[i].destination] = ""
  /\ \A i, j \in 1..Len(moves) :
       i # j => /\ moves[i].source # moves[j].source
                /\ moves[i].destination # moves[j].destination
                /\ moves[i].source # moves[j].destination

\* The workspace with every source of the batch at its destination.
RECURSIVE MoveAll(_, _)
MoveAll(files, moves) ==
  IF moves = <<>> THEN files
  ELSE MoveAll(Rename(files, moves[1].source, moves[1].destination), Tail(moves))

\* C19: a call of move_multiple_files_or_directories with a valid batch is
\* handled by the filesystem handler, makes no generative-AI call, and leaves
\* every source of the batch at its destination.
C19_MoveMultipleMoves ==
  ( /\ fn = "callTool"
    /\ fnArg.call.toolName = MoveMultiple
    /\ ValidBatch(fnArg.call.args.moves, fnArg.files) )
  => /\ fnRet.route = "filesystem"
     /\ ~fnRet.calledAI
     /\ fnRet.code = ""
     /\ fnRet.files = MoveAll(fnArg.files, fnArg.call.args.moves)

(***************************************************************************)
(* Finish reasons: one attempt on responses with every finish reason       *)
(***************************************************************************)

\* Responses with every kind of finish reason and of first part.
FinishChunks ==
  {Response("", <<Candidate(fr, ps)>>) :
     fr \in {"", "STOP", "FINISH_REASON_UNSPECIFIED", "MAX_TOKENS", "SAFETY"},
     ps \in {<<>>, <<TextPart("Hel")>>, <<TextPart("")>>, <<CallPart>>}}

FinishLists == UNION { [1..n -> FinishChunks] : n \in 1..MaxChunks }

\* What the provider gives the attempt: the chunks as a stream, or the one
\* response of generateContent.
FinishOutcome(arg) ==
  IF arg.useStreaming THEN StreamOutcome(arg.chunks, FALSE, Err(""))
  ELSE ResponseOutcome(arg.chunks[1])

InitFinish ==
  /\ env = Environment("vertex", "my-project", "my-key", TRUE, 0, 0)
  /\ generativeClient = InitializeAIClient(GetAIConfig(env), FALSE).client
  /\ attemptTable = <<>>
  /\ EngineIdle
  /\ fn = "none"
  /\ fnArg \in { a \in [chunks : FinishLists, useStreaming : BOOLEAN] :
                   a.useStreaming \/ Len(a.chunks) = 1 }
  /\ fnRet = <<>>

\* The try block of one loop iteration on the outcome of fnArg.
ApplyAttemptBody ==
  /\ fn = "none"
  /\ fn' = "attemptBody"
  /\ fnRet' = AttemptBody(fnArg.useStreaming, FinishOutcome(fnArg))
  /\ UNCHANGED <<env, generativeClient, engineVars, attemptTable, fnArg>>

SpecFinish == InitFinish /\ [][ApplyAttemptBody]_vars

\* The chunks with every finish reason but SAFETY replaced by STOP.
StopChunks(chunks) ==
  [i \in DOMAIN chunks |->
     IF FinishReasonOf(chunks[i]) = "SAFETY" THEN chunks[i]
     ELSE Response(chunks[i].blockReason,
                   <<Candidate("STOP", chunks[i].candidates[1].parts)>>)]

\* C25: an attempt fails or returns, and returns the same text, whatever the
\* finish reasons other than SAFETY are; without a SAFETY finish reason it
\* returns when a first-part text or a function call of the final response
\* is present; with nothing accumulated the result is the text of the last
\* chunk's first part (the empty string when that is no text).
C25_FinishReasonBenign ==
  fn = "attemptBody" =>
    LET chunks == fnArg.chunks
        last   == chunks[Len(chunks)]
        stop   == AttemptBody(fnArg.useStreaming,
                              FinishOutcome([fnArg EXCEPT !.chunks = StopChunks(@)]))
    IN  /\ fnRet.threw = stop.threw
        /\ fnRet.text = stop.text
        /\ (/\ \A i \in DOMAIN chunks : FinishReasonOf(chunks[i]) # "SAFETY"
            /\ \/ FirstPartTexts(chunks) # ""
               \/ HasFunctionCallsInResponse(SomeResponse(last)))
           => ~fnRet.threw
        /\ (~fnRet.threw /\ FirstPartTexts(SubSeq(chunks, 1, Len(chunks) - 1)) = "")
           => fnRet.text = IF FirstPartText(last).defined
                             THEN FirstPartText(last).value ELSE ""

\* A stream whose chunks all end with MAX_TOKENS returned its text.
C25_Witness ==
  /\ fn = "attemptBody"
  /\ fnArg.useStreaming
  /\ Len(fnArg.chunks) = 2
  /\ \A i \in 1..2 : FinishReasonOf(fnArg.chunks[i]) = "MAX_TOKENS"
  /\ ~fnRet.threw
  /\ fnRet.text = "HelHel"

(***************************************************************************)
(* getAIConfig: the numeric and boolean overrides (src/src/config.ts)      *)
(***************************************************************************)

DEFAULT_MAX_OUTPUT_TOKENS == 8192
DEFAULT_MAX_RETRIES == 3
DEFAULT_RETRY_DELAY_MS == 1000

\* The value of a decimal digit character (-1: not a digit).
DigitValue(c) ==
  CASE c = "0" -> 0 [] c = "1" -> 1 [] c = "2" -> 2 [] c = "3" -> 3
    [] c = "4" -> 4 [] c = "5" -> 5 [] c = "6" -> 6 [] c = "7" -> 7
    [] c = "8" -> 8 [] c = "9" -> 9 [] OTHER -> -1

\* The first position >= k of s that holds no digit.
RECURSIVE DigitRunEnd(_, _)
DigitRunEnd(s, k) ==
  IF k <= Len(s) /\ DigitValue(CharAt(s, k)) >= 0 THEN DigitRunEnd(s, k + 1) ELSE k

\* The number the digits at positions i..j-1 of s denote after the digits acc.
RECURSIVE DigitsValue(_, _, _, _)
DigitsValue(s, i, j, acc) ==
  IF i >= j THEN acc
  ELSE DigitsValue(s, i + 1, j, 10 * acc + DigitValue(CharAt(s, i)))

RECURSIVE Pow10(_)
Pow10(n) == IF n <= 0 THEN 1 ELSE 10 * Pow10(n - 1)

\* parseInt(s, 10): white space, a sign, the longest run of digits; NaN
\* without a digit.  (-0 is 0 here: it is an integer and -0 >= 0 holds.)
ParseInt(s) ==
  LET a == SkipSpaces(s, 1)
      b == IF CharAt(s, a) \in {"+", "-"} THEN a + 1 ELSE a
      c == DigitRunEnd(s, b)
      n == DigitsValue(s, b, c, 0)
  IN  IF c = b THEN [nan |-> TRUE, value |-> 0]
      ELSE [nan |-> FALSE, value |-> IF CharAt(s, a) = "-" THEN 0 - n ELSE n]

\* parseFloat(s): white space, a sign, Infinity or digits with an optional
\* fraction and exponent; NaN otherwise.  The number is sign * num / den.
ParseFloat(s) ==
  LET a    == SkipSpaces(s, 1)
      neg  == CharAt(s, a) = "-"
      b    == IF CharAt(s, a) \in {"+", "-"} THEN a + 1 ELSE a
      c    == DigitRunEnd(s, b)
      dot  == CharAt(s, c) = "."
      d    == IF dot THEN DigitRunEnd(s, c + 1) ELSE c
      frac == IF dot THEN d - (c + 1) ELSE 0
      mant == DigitsValue(s, c + 1, d, DigitsValue(s, b, c, 0))
      e    == IF CharAt(s, d) \in {"e", "E"} THEN d + 1 ELSE d
      f    == IF e > d /\ CharAt(s, e) \in {"+", "-"} THEN e + 1 ELSE e
      g    == DigitRunEnd(s, f)
      ex   == IF e > d /\ g > f
                THEN (IF CharAt(s, e) = "-" THEN 0 - 1 ELSE 1) * DigitsValue(s, f, g, 0)
              ELSE 0
  IN  IF MatchAt(s, "Infinity", b)
        THEN [nan |-> FALSE, inf |-> TRUE, neg |-> neg, num |-> 0, den |-> 1]
      ELSE IF (c - b) + frac = 0
        THEN [nan |-> TRUE, inf |-> FALSE, neg |-> FALSE, num |-> 0, den |-> 1]
      ELSE [nan |-> FALSE, inf |-> FALSE, neg |-> neg,
            num |-> mant * Pow10(ex), den |-> Pow10(frac - ex)]

\* GetAIConfigOverrides without the lower limits of the integers.
GetAIConfigOverridesNoLimit(processEnv) ==
  LET parsedTemp    == ParseFloat(processEnv.AI_TEMPERATURE)
      streamEnv     == ToLowerCase(processEnv.AI_USE_STREAMING)
      parsedTokens  == ParseInt(processEnv.AI_MAX_OUTPUT_TOKENS)
      parsedRetries == ParseInt(processEnv.AI_MAX_RETRIES)
      parsedDelay   == ParseInt(processEnv.AI_RETRY_DELAY_MS)
  IN  [temperature |->
         IF /\ processEnv.AI_TEMPERATURE # ""
            /\ ~parsedTemp.nan /\ ~parsedTemp.inf
            /\ (parsedTemp.num = 0 \/ ~parsedTemp.neg)
            /\ parsedTemp.num <= 2 * parsedTemp.den
           THEN [num |-> parsedTemp.num, den |-> parsedTemp.den]
         ELSE [num |-> 0, den |-> 1],
       useStreaming |-> streamEnv # "false",
       maxOutputTokens |->
         IF processEnv.AI_MAX_OUTPUT_TOKENS # "" /\ ~parsedTokens.nan
           THEN parsedTokens.value ELSE DEFAULT_MAX_OUTPUT_TOKENS,
       maxRetries |->
         IF processEnv.AI_MAX_RETRIES # "" /\ ~parsedRetries.nan
           THEN parsedRetries.value ELSE DEFAULT_MAX_RETRIES,
       retryDelayMs |->
         IF processEnv.AI_RETRY_DELAY_MS # "" /\ ~parsedDelay.nan
           THEN parsedDelay.value ELSE DEFAULT_RETRY_DELAY_MS]

\* The temperature, useStreaming, maxOutputTokens, maxRetries and
\* retryDelayMs that getAIConfig() returns under the process environment
\* processEnv (an unset variable is the empty string).  The temperature is
\* the fraction num / den; DEFAULT_TEMPERATURE is 0 / 1.
GetAIConfigOverrides(processEnv) ==
  LET parsedTemp    == ParseFloat(processEnv.AI_TEMPERATURE)
      streamEnv     == ToLowerCase(processEnv.AI_USE_STREAMING)
      parsedTokens  == ParseInt(processEnv.AI_MAX_OUTPUT_TOKENS)
      parsedRetries == ParseInt(processEnv.AI_MAX_RETRIES)
      parsedDelay   == ParseInt(processEnv.AI_RETRY_DELAY_MS)
  IN  [temperature |->
         IF /\ processEnv.AI_TEMPERATURE # ""
            /\ ~parsedTemp.nan /\ ~parsedTemp.inf
            /\ (parsedTemp.num = 0 \/ ~parsedTemp.neg)
            /\ parsedTemp.num <= 2 * parsedTemp.den
           THEN [num |-> parsedTemp.num, den |-> parsedTemp.den]
         ELSE [num |-> 0, den |-> 1],
       useStreaming |-> streamEnv # "false",
       maxOutputTokens |->
         IF /\ processEnv.AI_MAX_OUTPUT_TOKENS # ""
            /\ ~parsedTokens.nan /\ parsedTokens.value > 0
           THEN parsedTokens.value ELSE DEFAULT_MAX_OUTPUT_TOKENS,
       maxRetries |->
         IF /\ processEnv.AI_MAX_RETRIES # ""
            /\ ~parsedRetries.nan /\ parsedRetries.value >= 0
           THEN parsedRetries.value ELSE DEFAULT_MAX_RETRIES,
       retryDelayMs |->
         IF /\ processEnv.AI_RETRY_DELAY_MS # ""
            /\ ~parsedDelay.nan /\ parsedDelay.value >= 0
           THEN parsedDelay.value ELSE DEFAULT_RETRY_DELAY_MS]

\* The process environments the check draws from: each variable unset, valid,
\* out of range, or no number.
InitConfig ==
  /\ env = Environment("vertex", "my-project", "my-key", TRUE, 0, 0)
  /\ generativeClient = InitializeAIClient(GetAIConfig(env), FALSE).client
  /\ attemptTable = <<>>
  /\ EngineIdle
  /\ fn = "none"
  /\ fnArg \in [AI_TEMPERATURE :
                  {"", "0", "0.7", "2", "2.5", "-0.1", ".5", "1e1", "5e-1",
                   "Infinity", "hot", "-0"},
                AI_USE_STREAMING : {"", "true", "false", "FALSE", "yes"},
                AI_MAX_OUTPUT_TOKENS : {"", "0", "512", "-5", "many", "3.7"},
                AI_MAX_RETRIES : {"", "0", "5", "-1", "abc", " 2", "12px"},
                AI_RETRY_DELAY_MS : {"", "0", "250", "-250", "1e3", "ms"}]
  /\ fnRet = <<>>

ApplyGetAIConfig ==
  /\ fn = "none"
  /\ fn' = "getAIConfig"
  /\ fnRet' = GetAIConfigOverrides(fnArg)
  /\ UNCHANGED <<env, generativeClient, engineVars, attemptTable, fnArg>>

SpecConfig == InitConfig /\ [][ApplyGetAIConfig]_vars

\* C26: whatever the five variables hold, getAIConfig returns maxRetries and
\* retryDelayMs as integers >= 0, maxOutputTokens as an integer > 0, a
\* temperature in [0, 2] and a boolean useStreaming; a variable that is unset,
\* no number, or out of range yields its default (3, 1000, 8192, 0, true).
C26_OverridesValidated ==
  fn = "getAIConfig" =>
    /\ fnRet.maxRetries \in Nat
    /\ fnRet.retryDelayMs \in Nat
    /\ fnRet.maxOutputTokens \in Nat \ {0}
    /\ fnRet.temperature.den > 0
    /\ 0 <= fnRet.temperature.num
    /\ fnRet.temperature.num <= 2 * fnRet.temperature.den
    /\ fnRet.useStreaming \in BOOLEAN
    /\ fnArg.AI_MAX_RETRIES \in {"", "-1", "abc"} => fnRet.maxRetries = 3
    /\ fnArg.AI_RETRY_DELAY_MS \in {"", "-250", "ms"} => fnRet.retryDelayMs = 1000
    /\ fnArg.AI_MAX_OUTPUT_TOKENS \in {"", "0", "-5", "many"}
         => fnRet.maxOutputTokens = 8192
    /\ fnArg.AI_TEMPERATURE \in {"", "2.5", "-0.1", "1e1", "Infinity", "hot"}
         => fnRet.temperature.num = 0
    /\ fnArg.AI_USE_STREAMING \in {"", "yes"} => fnRet.useStreaming

\* Every variable holds a value that does not validate: the defaults are
\* returned.
C26_Witness ==
  /\ fn = "getAIConfig"
  /\ fnArg.AI_MAX_RETRIES = "-1"
  /\ fnArg.AI_RETRY_DELAY_MS = "ms"
  /\ fnArg.AI_MAX_OUTPUT_TOKENS = "0"
  /\ fnArg.AI_TEMPERATURE = "2.5"
  /\ fnArg.AI_USE_STREAMING = "yes"
  /\ fnRet = [temperature |-> [num |-> 0, den |-> 1], useStreaming |-> TRUE,
              maxOutputTokens |-> 8192, maxRetries |-> 3, retryDelayMs |-> 1000]

\* Valid values are taken over: " 2" and "12px" parse to 2 and 12, "1e3" to
\* 1, "3.7" to 3, "5e-1" to a half.
C26_ValidWitness ==
  /\ fn = "getAIConfig"
  /\ fnArg.AI_MAX_RETRIES = "12px" /\ fnRet.maxRetries = 12
  /\ fnArg.AI_RETRY_DELAY_MS = "1e3" /\ fnRet.retryDelayMs = 1
  /\ fnArg.AI_MAX_OUTPUT_TOKENS = "3.7" /\ fnRet.maxOutputTokens = 3
  /\ fnArg.AI_TEMPERATURE = "5e-1" /\ fnRet.temperature = [num |-> 5, den |-> 10]
  /\ fnArg.AI_USE_STREAMING = "FALSE" /\ ~fnRet.useStreaming

(***************************************************************************)
(* validateWorkspacePath (src/src/utils/filesystem.ts)                     *)
(***************************************************************************)

\* The most segments a requested path of the check has.
MaxSegments == 2

\* s split at every "/" from position i on, cur being the segment begun.
RECURSIVE SplitPath(_, _, _)
SplitPath(s, i, cur) ==
  IF i > Len(s) THEN <<cur>>
  ELSE IF CharAt(s, i) = "/" THEN <<cur>> \o SplitPath(s, i + 1, "")
  ELSE SplitPath(s, i + 1, cur \o CharAt(s, i))

\* The segments acc followed by segs with "" and "." dropped and ".."
\* removing the segment before it (none at the root).
RECURSIVE NormalizeSegments(_, _)
NormalizeSegments(segs, acc) ==
  IF segs = <<>> THEN acc
  ELSE IF Head(segs) \in {"", "."} THEN NormalizeSegments(Tail(segs), acc)
  ELSE IF Head(segs) = ".."
    THEN NormalizeSegments(Tail(segs),
                           IF acc = <<>> THEN acc ELSE SubSeq(acc, 1, Len(acc) - 1))
  ELSE NormalizeSegments(Tail(segs), Append(acc, Head(segs)))

RECURSIVE JoinPath(_)
JoinPath(segs) ==
  IF segs = <<>> THEN "" ELSE "/" \o Head(segs) \o JoinPath(Tail(segs))

\* path.resolve(from, to) on POSIX: to when it is absolute, from/to
\* otherwise, normalized, without a trailing slash.
PathResolve(from, to) ==
  LET whole == IF CharAt(to, 1) = "/" THEN to ELSE from \o "/" \o to
      segs  == NormalizeSegments(SplitPath(whole, 1, ""), <<>>)
  IN  IF segs = <<>> THEN "/" ELSE JoinPath(segs)

\* validateWorkspacePath(requestedPath) with process.cwd() = cwd.
ValidateWorkspacePath(cwd, requestedPath) ==
  LET absolutePath == PathResolve(cwd, requestedPath)
  IN  IF ~MatchAt(absolutePath, cwd, 1)
        THEN [threw |-> TRUE, path |-> "",
              error |-> Err("Path traversal attempt detected: " \o requestedPath)]
      ELSE [threw |-> FALSE, path |-> absolutePath, error |-> Err("")]

\* Working directories and requested paths, relative and absolute, of up to
\* MaxSegments segments.
InitValidate ==
  /\ env = Environment("vertex", "my-project", "my-key", TRUE, 0, 0)
  /\ generativeClient = InitializeAIClient(GetAIConfig(env), FALSE).client
  /\ attemptTable = <<>>
  /\ EngineIdle
  /\ fn = "none"
  /\ fnArg \in
       { [cwd |-> c, requestedPath |-> lead \o SubSeq(JoinPath(segs), 2, Len(JoinPath(segs)))] :
           c \in {"/work", "/srv/app"},
           lead \in {"", "/"},
           segs \in UNION { [1..n -> {"..", ".", "a", "work", "work-evil"}] :
                              n \in 0..MaxSegments } }
  /\ fnRet = <<>>

ApplyValidateWorkspacePath ==
  /\ fn = "none"
  /\ fn' = "validateWorkspacePath"
  /\ fnRet' = ValidateWorkspacePath(fnArg.cwd, fnArg.requestedPath)
  /\ UNCHANGED <<env, generativeClient, engineVars, attemptTable, fnArg>>

SpecValidate == InitValidate /\ [][ApplyValidateWorkspacePath]_vars

\* Whether the absolute path is the directory dir or lies below it.
InsideDirectory(dir, absolutePath) ==
  \/ absolutePath = dir
  \/ MatchAt(absolutePath, dir \o "/", 1)

\* C30: validateWorkspacePath throws "Path traversal attempt detected" or
\* returns the resolved path, which is the working directory or a descendant
\* of it.
C30_PathStaysInside ==
  fn = "validateWorkspacePath" =>
    IF fnRet.threw
      THEN MatchAt(fnRet.error.message, "Path traversal attempt detected", 1)
    ELSE /\ fnRet.path = PathResolve(fnArg.cwd, fnArg.requestedPath)
         /\ InsideDirectory(fnArg.cwd, fnRet.path)

\* A path that leaves the working directory is refused.
C30_RefusedWitness ==
  /\ fn = "validateWorkspacePath"
  /\ fnArg.cwd = "/work"
  /\ fnArg.requestedPath = "../a"
  /\ fnRet.threw

=============================================================================
